---- MODULE Spec2Model ----
(***************************************************************************)
(* Order lifecycle and derived-totals engine of src/Backup/app.py over the *)
(* SQLite schema of src/Backup/db.py.  The tables are the state; every     *)
(* REST handler is one action of Spec (one request = one transaction, see  *)
(* get_conn).  SpecC splits order creation into its statements to study    *)
(* concurrent requests on the PED counter.                                 *)
(***************************************************************************)
EXTENDS Integers, Sequences, FiniteSets, TLC

\* ------------------------------------------------------------------ bounds
MaxPedidos == 1      \* orders ever created
MaxItens   == 2      \* line items ever created (AUTOINCREMENT ids)
MaxOrdens  == 2      \* production orders ever created
MaxLogs    == 5      \* mutating requests are accepted while the log is shorter

\* ------------------------------------------------------------ value domains
NULL == -1           \* Python None / SQL NULL in a numeric column
None == "None"       \* Python None / SQL NULL in a text column

Procs == {1, 2}      \* concurrent request workers (SpecC)


\* a row of embalagem_master
Embalagem(embalagem_code, rev, material, transparencia) ==
    [embalagem_code |-> embalagem_code, rev |-> rev, material |-> material,
     transparencia |-> transparencia]

\* package specifications registered before the orders (index = id)
EmbalagensIniciais ==
    << Embalagem("EMB1", None, "PE", NULL),
       Embalagem("EMB2", None, "PP", 0),
       Embalagem("EMB1", "R01", "PA", 50) >>

VARIABLES
    numeradores,      \* numeradores.ultimo for nome = 'PED'
    pedidos,          \* sequence of order rows, index = pedidos.id
    pedido_itens,     \* function item id -> item row (live rows only)
    seq_itens,        \* sqlite_sequence of pedido_itens (AUTOINCREMENT)
    pedido_logs,      \* sequence of audit rows, index = pedido_logs.id
    ordens_producao,  \* sequence of production-order rows
    resp,             \* the last request and the response it got
    writer,           \* SpecC: the connection holding SQLite's write lock, 0 = none
    conn,             \* SpecC: per worker, the open connection's position and view
    embalagem_master, \* sequence of package specification rows, index = id
    clientes          \* sequence of client rows, index = clientes.id

vars == <<numeradores, pedidos, pedido_itens, seq_itens, pedido_logs,
          ordens_producao, resp, writer, conn, embalagem_master, clientes>>

\* the registries the order core only reads
cadastros == <<embalagem_master, clientes>>

db == <<numeradores, pedidos, pedido_itens, seq_itens, pedido_logs, ordens_producao>>

\* ---------------------------------------------------------------- responses
NoData    == [none |-> TRUE]
NoContent == [no_content |-> TRUE]

Reply(op, pedido_id, item_id, data, code, body) ==
    [op |-> op, pedido_id |-> pedido_id, item_id |-> item_id,
     data |-> data, code |-> code, body |-> body]

bad_request(msg) == [error |-> msg]

NotFound(msg) == [error |-> msg]

Log(pedido_id, acao, detalhe) ==
    [pedido_id |-> pedido_id, acao |-> acao, detalhe |-> detalhe]


\* mutant: the connection commits even when the handler raised
get_conn_commit_sempre(raised, antes, depois) == depois

\* with get_conn() as conn: commit on normal exit, close without commit (the
\* transaction is rolled back) when the body raised
get_conn(raised, antes, depois) == IF raised THEN antes ELSE depois

\* mutant: the new entries are written over the log instead of after it
insert_pedido_logs_substitui(logs, novos) ==
    IF novos = <<>> THEN logs ELSE SubSeq(logs, 1, Len(logs) - 1) \o novos

\* INSERT INTO pedido_logs(...): the new rows take the next ids
insert_pedido_logs(logs, novos) == logs \o novos

\* mutant: ORDER BY id DESC
api_pedido_logs_desc(logs, pedido_id) ==
    LET ids == {i \in DOMAIN logs : logs[i].pedido_id = pedido_id}
        rows == [i \in 1..Len(logs) |->
                  [id |-> Len(logs) + 1 - i, pedido_id |-> logs[Len(logs) + 1 - i].pedido_id,
                   acao |-> logs[Len(logs) + 1 - i].acao,
                   detalhe |-> logs[Len(logs) + 1 - i].detalhe]]
    IN  SelectSeq(rows, LAMBDA r : r.id \in ids)

\* GET /api/pedidos/<id>/logs: SELECT * FROM pedido_logs WHERE pedido_id=? ORDER BY id ASC
api_pedido_logs(logs, pedido_id) ==
    LET rows == [i \in 1..Len(logs) |->
                  [id |-> i, pedido_id |-> logs[i].pedido_id,
                   acao |-> logs[i].acao, detalhe |-> logs[i].detalhe]]
    IN  SelectSeq(rows, LAMBDA r : r.pedido_id = pedido_id)

\* ------------------------------------------------------------ Totals Engine
ItensDoPedido(itens, pedido_id) ==
    {i \in DOMAIN itens : itens[i].pedido_id = pedido_id}

\* float(x or 0)
FloatOr0(x) == IF x = NULL THEN 0 ELSE x

RECURSIVE SomaItens(_, _)
SomaItens(itens, S) ==
    IF S = {} THEN 0
    ELSE LET i == CHOOSE x \in S : TRUE
         IN  FloatOr0(itens[i].preco_unit) * FloatOr0(itens[i].qtd)
             + SomaItens(itens, S \ {i})

\* the value _recalc_pedido_totais computes and returns
NovoTotal(ped, itens, pedido_id) ==
    IF ItensDoPedido(itens, pedido_id) # {}
    THEN SomaItens(itens, ItensDoPedido(itens, pedido_id))
    ELSE IF ped.preco_base # NULL /\ ped.quantidade_planejada # NULL
         THEN ped.preco_base * ped.quantidade_planejada
         ELSE NULL

\* mutant: the recomputation stores zero
recalc_zera(peds, itens, pedido_id) == [peds EXCEPT ![pedido_id].preco_total = 0]

\* mutant: the recomputed total is never written back
recalc_sem_update(peds, itens, pedido_id) == peds

\* the orders table after _recalc_pedido_totais: the UPDATE is unconditional
recalc_pedido_totais(peds, itens, pedido_id) ==
    [peds EXCEPT ![pedido_id].preco_total = NovoTotal(peds[pedido_id], itens, pedido_id)]

\* mutant: RECALC_TOTAL is appended whenever a total was computed
RecalcLogSempre(pedido_id, old_total, new_total, extra) ==
    IF new_total # NULL
    THEN <<Log(pedido_id, "RECALC_TOTAL",
               [de |-> old_total, para |-> new_total, motivo |-> extra])>>
    ELSE <<>>

\* the RECALC_TOTAL entry the handlers append after a recomputation
RecalcLog(pedido_id, old_total, new_total, extra) ==
    IF new_total # NULL /\ new_total # old_total
    THEN <<Log(pedido_id, "RECALC_TOTAL",
               [de |-> old_total, para |-> new_total, motivo |-> extra])>>
    ELSE <<>>

\* ------------------------------------------------------------ order numbers
RECURSIVE Digits(_)
Digits(n) == IF n < 10 THEN <<n>> ELSE Append(Digits(n \div 10), n % 10)

RECURSIVE ZeroPad(_, _)
ZeroPad(ds, w) == IF Len(ds) >= w THEN ds ELSE ZeroPad(<<0>> \o ds, w)

\* f"PED-{prox:06d}"
FormatPED(prox) == [prefix |-> "PED-", digits |-> ZeroPad(Digits(prox), 6)]

RECURSIVE IntOf(_)
IntOf(ds) == IF Len(ds) = 0 THEN 0
             ELSE 10 * IntOf(SubSeq(ds, 1, Len(ds) - 1)) + ds[Len(ds)]

\* prox = ultimo + 1
\* mutant: a number is skipped
ProxNumeroSalta(ultimo) == ultimo + 2

ProxNumero(ultimo) == ultimo + 1

\* ------------------------------------------------------------- create_order
Pedido(cliente_id, preco_base, quantidade_planejada, preco_total) ==
    [cliente_id |-> cliente_id, preco_base |-> preco_base,
     quantidade_planejada |-> quantidade_planejada, preco_total |-> preco_total]

\* a request body that also carries a status and an order number
PedidoCom(data, status, numero) ==
    [k \in (DOMAIN data) \cup {"status", "numero_pedido"} |->
        IF k = "status" THEN status
        ELSE IF k = "numero_pedido" THEN numero ELSE data[k]]

\* request bodies of POST /api/pedidos tried by the model
CreateData ==
    { Pedido(NULL, NULL, NULL, NULL),   \* no cliente_id
      Pedido(1, NULL, NULL, NULL),      \* the body the tests send
      Pedido(9, NULL, NULL, NULL),      \* a client that does not exist
      PedidoCom(Pedido(1, NULL, NULL, NULL), "APROVADO", FormatPED(9)),
      Pedido(1, 2, 0, NULL),
      Pedido(1, 2, 3, NULL),
      Pedido(1, 2, 3, 7) }

\* initial preco_total of api_pedidos_create
PrecoTotalInicial(data) ==
    IF data.preco_total = NULL /\ data.preco_base # NULL
       /\ data.quantidade_planejada # NULL /\ data.quantidade_planejada # 0
    THEN data.preco_base * data.quantidade_planejada
    ELSE data.preco_total

\* date.today().isoformat(): one day covers a run of the model
Hoje == "hoje"

\* mutant: the INSERT takes status and number from the request when present
NovoPedidoDoPedido(data, numero) ==
    [numero_pedido |-> IF "numero_pedido" \in DOMAIN data THEN data.numero_pedido ELSE numero,
     data_emissao |-> Hoje,
     status |-> IF "status" \in DOMAIN data THEN data.status ELSE "RASCUNHO",
     preco_total |-> PrecoTotalInicial(data),
     preco_base |-> data.preco_base,
     quantidade_planejada |-> data.quantidade_planejada]

NovoPedido(data, numero) ==
    [numero_pedido |-> numero, data_emissao |-> Hoje, status |-> "RASCUNHO",
     preco_total |-> PrecoTotalInicial(data),
     preco_base |-> data.preco_base,
     quantidade_planejada |-> data.quantidade_planejada]

api_pedidos_create(data) ==
    /\ UNCHANGED cadastros
    /\ UNCHANGED <<pedido_itens, seq_itens, ordens_producao, writer, conn>>
    /\ IF data.cliente_id = NULL
       THEN /\ resp' = Reply("create_order", 0, 0, data, 400,
                             bad_request("cliente_id obrigatorio"))
            /\ UNCHANGED <<numeradores, pedidos, pedido_logs>>
       ELSE LET prox   == ProxNumero(numeradores)
                numero == FormatPED(prox)
                pid    == Len(pedidos) + 1
                \* FOREIGN KEY constraint failed: sqlite3.IntegrityError at the INSERT
                raised == data.cliente_id \notin DOMAIN clientes
            IN     /\ raised \/ (Len(pedidos) < MaxPedidos /\ Len(pedido_logs) < MaxLogs)
                   /\ numeradores' = get_conn(raised, numeradores, prox)
                   /\ pedidos' = get_conn(raised, pedidos,
                                          Append(pedidos, NovoPedido(data, numero)))
                   /\ pedido_logs' = get_conn(raised, pedido_logs,
                                         insert_pedido_logs(pedido_logs,
                                            <<Log(pid, "CREATED", [numero |-> numero])>>))
                   /\ resp' = IF raised
                              THEN Reply("create_order", 0, 0, data, 500,
                                         [error |-> "FOREIGN KEY constraint failed"])
                              ELSE Reply("create_order", pid, 0, data, 201, pedidos'[pid])

\* ------------------------------------------------------------ header patch
\* mutant: status is part of the allow-list
allowed_fields_com_status ==
    {"cliente_id", "data_prevista", "regime_venda", "comissao_percent",
     "representante_nome", "quantidade_planejada", "condicoes_comerciais",
     "embalagem_code", "preco_base", "preco_total", "quantidade_tipo", "ncm",
     "margem_toler_percent", "status"}

allowed_fields ==
    {"cliente_id", "data_prevista", "regime_venda", "comissao_percent",
     "representante_nome", "quantidade_planejada", "condicoes_comerciais",
     "embalagem_code", "preco_base", "preco_total", "quantidade_tipo", "ncm",
     "margem_toler_percent"}

trigger_recalc_keys == {"preco_base", "quantidade_planejada", "quantidade_tipo"}

\* the columns of pedidos the model stores
PedidoCols == {"numero_pedido", "data_emissao", "status", "preco_total", "preco_base", "quantidade_planejada"}

Patch1(k, v) == [x \in {k} |-> v]
Patch2(k1, v1, k2, v2) == [x \in {k1, k2} |-> IF x = k1 THEN v1 ELSE v2]

\* request bodies of PATCH /api/pedidos/<id> tried by the model
HeaderData ==
    { Patch1("preco_base", 2), Patch1("preco_base", NULL),
      Patch1("quantidade_planejada", 3),
      Patch1("preco_total", 7),
      Patch1("status", "CONCLUIDO"),
      Patch2("preco_total", 7, "status", "CONCLUIDO") }

\* mutant: the patch is applied without the allow-list
CleanSemFiltro(data) == data

\* clean = {k: v for k, v in data.items() if k in allowed_fields}
Clean(data) == [k \in (DOMAIN data) \cap allowed_fields |-> data[k]]

\* clean after the derived adjustment of preco_total
CleanDerivado(clean, itens_count) ==
    IF "preco_base" \in DOMAIN clean /\ "preco_total" \notin DOMAIN clean /\ itens_count = 0
    THEN [k \in (DOMAIN clean) \cup {"preco_total"} |->
             IF k = "preco_total" THEN clean["preco_base"] ELSE clean[k]]
    ELSE clean

\* UPDATE pedidos SET k=? ... for the keys of clean
AplicaPatch(row, clean) ==
    [k \in DOMAIN row |-> IF k \in DOMAIN clean THEN clean[k] ELSE row[k]]

Changed(row_old, row_new, clean) ==
    {k \in DOMAIN clean : row_old[k] # row_new[k]}

api_pedidos_update(pedido_id, data) ==
    /\ UNCHANGED cadastros
    /\ UNCHANGED <<numeradores, pedido_itens, seq_itens, ordens_producao, writer, conn>>
    /\ LET clean0 == Clean(data) IN
       IF DOMAIN clean0 = {}
       THEN /\ resp' = Reply("update_order_header", pedido_id, 0, data, 400,
                             bad_request("Nenhum campo permitido para atualizacao"))
            /\ UNCHANGED <<pedidos, pedido_logs>>
       ELSE IF pedido_id \notin DOMAIN pedidos
       THEN /\ resp' = Reply("update_order_header", pedido_id, 0, data, 404,
                             NotFound("pedido nao encontrado"))
            /\ UNCHANGED <<pedidos, pedido_logs>>
       ELSE IF pedidos[pedido_id].status # "RASCUNHO"
       THEN /\ resp' = Reply("update_order_header", pedido_id, 0, data, 400,
                             bad_request("Pedido nao pode mais ser editado"))
            /\ UNCHANGED <<pedidos, pedido_logs>>
       ELSE LET row_old     == pedidos[pedido_id]
                itens_count == Cardinality(ItensDoPedido(pedido_itens, pedido_id))
                clean       == CleanDerivado(clean0, itens_count)
                row_new     == AplicaPatch(row_old, clean)
                peds1       == [pedidos EXCEPT ![pedido_id] = row_new]
                changed     == Changed(row_old, row_new, clean)
                log1        == IF changed # {}
                               THEN <<Log(pedido_id, "UPDATED",
                                          [fields |-> [k \in changed |->
                                              [old |-> row_old[k], new |-> row_new[k]]]])>>
                               ELSE <<>>
                recalc      == itens_count = 0 /\ trigger_recalc_keys \cap changed # {}
                peds2       == IF recalc
                               THEN recalc_pedido_totais(peds1, pedido_itens, pedido_id)
                               ELSE peds1
                log2        == IF recalc
                               THEN RecalcLog(pedido_id, row_old.preco_total,
                                              peds2[pedido_id].preco_total,
                                              "patch campos base sem itens")
                               ELSE <<>>
            IN  /\ Len(pedido_logs) < MaxLogs
                /\ pedidos' = peds2
                /\ pedido_logs' = insert_pedido_logs(pedido_logs, log1 \o log2)
                /\ resp' = Reply("update_order_header", pedido_id, 0, data, 200,
                                 IF log2 # <<>> THEN peds2[pedido_id] ELSE row_new)

\* ----------------------------------------------------------------- add_item
ItemRev(embalagem_code, rev, qtd, preco_unit) ==
    [embalagem_code |-> embalagem_code, rev |-> rev, qtd |-> qtd,
     preco_unit |-> preco_unit]

\* a body without "rev": data.get("rev") is None
Item(embalagem_code, qtd, preco_unit) == ItemRev(embalagem_code, None, qtd, preco_unit)

\* IFNULL(x, '')
IfNull(x) == IF x = None THEN "" ELSE x

\* mutant: the revision is not part of the match
SelectEmbalagemSemRev(tab, code, rev) ==
    {i \in DOMAIN tab : tab[i].embalagem_code = code}

\* SELECT * FROM embalagem_master WHERE embalagem_code=? AND IFNULL(rev,'')=IFNULL(?, '')
SelectEmbalagem(tab, code, rev) ==
    {i \in DOMAIN tab : tab[i].embalagem_code = code /\ IfNull(tab[i].rev) = IfNull(rev)}

\* fetchone(): the first row of the result
Fetchone(tab, ids) == tab[CHOOSE i \in ids : \A j \in ids : i <= j]

\* 1 if (emb["transparencia"] or 0) > -9999 and emb["transparencia"] is not None else 0
Tratamento(transparencia) ==
    IF transparencia # NULL /\ transparencia > -9999 THEN 1 ELSE 0

\* a JSON string holding the digits of n is written TextoBase + n
TextoBase == 1000

Texto(n) == TextoBase + n

\* what the INTEGER / REAL affinity of the column stores for a bound value:
\* text that is a well-formed number is converted to the number
Afinidade(v) == IF v >= TextoBase THEN v - TextoBase ELSE v

\* the columns of pedido_itens declared INTEGER or REAL
ColunasNumericas == {"qtd", "preco_unit"}

Armazenado(k, v) == IF k \in ColunasNumericas THEN Afinidade(v) ELSE v

\* request bodies of POST /api/pedidos/<id>/itens tried by the model
AddData ==
    { Item("EMB1", 5, 2), Item("EMB2", 3, 4), Item("EMB1", NULL, 4), Item("EMBX", 5, 2) }

\* the row api_pedido_itens_add inserts: commercial terms from the request,
\* snapshot block from the package specification
NovoItem(pedido_id, emb, data) ==
    [pedido_id |-> pedido_id,
     embalagem_code |-> emb.embalagem_code,
     rev |-> emb.rev,
     qtd |-> Afinidade(data.qtd),
     preco_unit |-> Afinidade(data.preco_unit),
     snapshot_material |-> emb.material,
     snapshot_tratamento |-> Tratamento(emb.transparencia),
     anel_extrusao |-> None,
     status_impressao |-> "rascunho"]

\* dict(row) of an item: the row with its id
ItemJson(iid, row) ==
    [k \in (DOMAIN row) \cup {"id"} |-> IF k = "id" THEN iid ELSE row[k]]

\* mutant: the status of the order never blocks its items
ItensBloqueadosNunca(status) == FALSE

\* mutant: items are blocked only in the terminal statuses
ItensBloqueadosTerminal(status) == status \in {"CONCLUIDO", "CANCELADO"}

\* (ped["status"] or "").upper() != "RASCUNHO"
ItensBloqueados(status) == status # "RASCUNHO"

api_pedido_itens_add(pedido_id, data) ==
    /\ UNCHANGED cadastros
    /\ UNCHANGED <<numeradores, ordens_producao, writer, conn>>
    /\ IF pedido_id \notin DOMAIN pedidos
       THEN /\ resp' = Reply("add_item", pedido_id, 0, data, 404,
                             NotFound("pedido nao encontrado"))
            /\ UNCHANGED <<pedidos, pedido_itens, seq_itens, pedido_logs>>
       ELSE IF ItensBloqueados(pedidos[pedido_id].status)
       THEN /\ resp' = Reply("add_item", pedido_id, 0, data, 400,
                             bad_request("Pedido nao esta em RASCUNHO (itens bloqueados)"))
            /\ UNCHANGED <<pedidos, pedido_itens, seq_itens, pedido_logs>>
       ELSE IF SelectEmbalagem(embalagem_master, data.embalagem_code, data.rev) = {}
       THEN /\ resp' = Reply("add_item", pedido_id, 0, data, 400,
                             bad_request("Embalagem nao encontrada para snapshot"))
            /\ UNCHANGED <<pedidos, pedido_itens, seq_itens, pedido_logs>>
       ELSE LET emb       == Fetchone(embalagem_master,
                                      SelectEmbalagem(embalagem_master,
                                                      data.embalagem_code, data.rev))
                iid       == seq_itens + 1
                row       == NovoItem(pedido_id, emb, data)
                itens1    == [i \in (DOMAIN pedido_itens) \cup {iid} |->
                                 IF i = iid THEN row ELSE pedido_itens[i]]
                old_total == pedidos[pedido_id].preco_total
                peds1     == recalc_pedido_totais(pedidos, itens1, pedido_id)
            IN  /\ seq_itens < MaxItens
                /\ Len(pedido_logs) < MaxLogs
                /\ seq_itens' = iid
                /\ pedido_itens' = itens1
                /\ pedidos' = peds1
                /\ pedido_logs' = insert_pedido_logs(pedido_logs,
                         <<Log(pedido_id, "ITEM_ADDED",
                               [item_id |-> iid, embalagem_code |-> emb.embalagem_code])>>
                         \o RecalcLog(pedido_id, old_total, peds1[pedido_id].preco_total, None))
                /\ resp' = Reply("add_item", pedido_id, iid, data, 201, ItemJson(iid, row))

\* -------------------------------------------------------------- delete_item
\* mutant: the item is looked up by its id alone
ItemDeQualquerPedido(itens, item_id, pedido_id) == item_id \in DOMAIN itens

\* SELECT id FROM pedido_itens WHERE id=? AND pedido_id=?
ItemDoPedido(itens, item_id, pedido_id) ==
    item_id \in DOMAIN itens /\ itens[item_id].pedido_id = pedido_id

api_pedido_item_delete(pedido_id, item_id) ==
    /\ UNCHANGED cadastros
    /\ UNCHANGED <<numeradores, seq_itens, ordens_producao, writer, conn>>
    /\ IF pedido_id \notin DOMAIN pedidos
       THEN /\ resp' = Reply("delete_item", pedido_id, item_id, NoData, 404,
                             NotFound("pedido nao encontrado"))
            /\ UNCHANGED <<pedidos, pedido_itens, pedido_logs>>
       ELSE IF ItensBloqueados(pedidos[pedido_id].status)
       THEN /\ resp' = Reply("delete_item", pedido_id, item_id, NoData, 400,
                             bad_request("Itens so podem ser removidos em RASCUNHO"))
            /\ UNCHANGED <<pedidos, pedido_itens, pedido_logs>>
       ELSE IF ~ItemDoPedido(pedido_itens, item_id, pedido_id)
       THEN /\ resp' = Reply("delete_item", pedido_id, item_id, NoData, 404,
                             NotFound("item nao encontrado"))
            /\ UNCHANGED <<pedidos, pedido_itens, pedido_logs>>
       ELSE LET itens1    == [i \in (DOMAIN pedido_itens) \ {item_id} |-> pedido_itens[i]]
                old_total == pedidos[pedido_id].preco_total
                peds1     == recalc_pedido_totais(pedidos, itens1, pedido_id)
            IN  /\ Len(pedido_logs) < MaxLogs
                /\ pedido_itens' = itens1
                /\ pedidos' = peds1
                /\ pedido_logs' = insert_pedido_logs(pedido_logs,
                         <<Log(pedido_id, "ITEM_DELETED", [item_id |-> item_id])>>
                         \o RecalcLog(pedido_id, old_total, peds1[pedido_id].preco_total, None))
                /\ resp' = Reply("delete_item", pedido_id, item_id, NoData, 204, NoContent)

\* -------------------------------------------------------------- update_item
base_allowed == {"status_impressao", "anel_extrusao"}

draft_extra == {"descricao", "qtd", "qtd_tipo", "preco_unit", "preco_kg",
                "peso_unit_kg", "margem_toler_percent"}

\* the keys for which k.startswith("snapshot_") holds
SnapshotKeys == {"snapshot_material"}

startswith_snapshot(k) == k \in SnapshotKeys

\* mutant: the draft field set is allowed in every status
AllowedItemSempre(pstatus) == base_allowed \cup draft_extra

\* mutant: the quantity stays editable after the draft
AllowedItemComQtd(pstatus) == base_allowed \cup {"qtd"}

AllowedItem(pstatus) ==
    IF pstatus = "RASCUNHO" THEN base_allowed \cup draft_extra ELSE base_allowed

\* pstatus in {"CONCLUIDO", "CANCELADO"}
ItemUpdateProibido(pstatus) == pstatus \in {"CONCLUIDO", "CANCELADO"}

\* mutant: the payload is applied without filtering
UpdatesSemFiltro(data, allowed) == {k \in DOMAIN data : k \notin {"pedido_id", "id"}}

Updates(data, allowed) ==
    {k \in DOMAIN data : ~startswith_snapshot(k) /\ k \in allowed}

Blocked(data, allowed) ==
    {k \in DOMAIN data :
        \/ startswith_snapshot(k)
        \/ (k \notin allowed /\ k \notin {"pedido_id", "id"})}

\* UPDATE pedido_itens SET k=? ... for the keys of updates
AplicaUpdates(row, data, updates) ==
    [k \in DOMAIN row |-> IF k \in updates THEN Armazenado(k, data[k]) ELSE row[k]]

Diffs(item, data, updates) == {k \in updates : item[k] # data[k]}

\* request bodies of PATCH /api/pedidos/<id>/itens/<id> tried by the model
ItemData ==
    { Patch1("qtd", 3), Patch1("qtd", Texto(5)), Patch1("preco_unit", NULL),
      Patch1("status_impressao", "pendente"),
      Patch1("snapshot_material", "OUTRO"),
      Patch2("snapshot_material", "OUTRO", "status_impressao", "pendente"),
      Patch2("qtd", 3, "anel_extrusao", "A1"),
      Patch2("id", 9, "qtd", 5) }

api_pedido_item_update(pedido_id, item_id, data) ==
    /\ UNCHANGED cadastros
    /\ UNCHANGED <<numeradores, seq_itens, ordens_producao, writer, conn>>
    /\ IF pedido_id \notin DOMAIN pedidos
       THEN /\ resp' = Reply("update_item", pedido_id, item_id, data, 404,
                             NotFound("pedido nao encontrado"))
            /\ UNCHANGED <<pedidos, pedido_itens, pedido_logs>>
       ELSE IF ItemUpdateProibido(pedidos[pedido_id].status)
       THEN /\ resp' = Reply("update_item", pedido_id, item_id, data, 400,
                             bad_request("Pedido nao permite alteracoes em itens nesse status"))
            /\ UNCHANGED <<pedidos, pedido_itens, pedido_logs>>
       ELSE IF ~ItemDoPedido(pedido_itens, item_id, pedido_id)
       THEN /\ resp' = Reply("update_item", pedido_id, item_id, data, 404,
                             NotFound("item nao encontrado"))
            /\ UNCHANGED <<pedidos, pedido_itens, pedido_logs>>
       ELSE LET allowed == AllowedItem(pedidos[pedido_id].status)
                updates == Updates(data, allowed)
                blocked == Blocked(data, allowed)
            IN
            IF updates = {}
            THEN /\ resp' = Reply("update_item", pedido_id, item_id, data, 400,
                                  [error |-> "Nenhum campo permitido para atualizacao",
                                   bloqueados |-> blocked])
                 /\ UNCHANGED <<pedidos, pedido_itens, pedido_logs>>
            ELSE LET item      == pedido_itens[item_id]
                     row       == AplicaUpdates(item, data, updates)
                     itens1    == [pedido_itens EXCEPT ![item_id] = row]
                     diffs     == Diffs(item, data, updates)
                     log1      == IF diffs # {}
                                  THEN <<Log(pedido_id, "ITEM_UPDATED",
                                             [item_id |-> item_id,
                                              changes |-> [k \in diffs |->
                                                  [de |-> item[k], para |-> data[k]]]])>>
                                  ELSE <<>>
                     old_total == pedidos[pedido_id].preco_total
                     peds1     == recalc_pedido_totais(pedidos, itens1, pedido_id)
                 IN  /\ Len(pedido_logs) < MaxLogs
                     /\ pedido_itens' = itens1
                     /\ pedidos' = peds1
                     /\ pedido_logs' = insert_pedido_logs(pedido_logs,
                            log1 \o RecalcLog(pedido_id, old_total,
                                              peds1[pedido_id].preco_total, None))
                     /\ resp' = Reply("update_item", pedido_id, item_id, data, 200,
                                      ItemJson(item_id, row))

\* ------------------------------------------------------------ change_status
\* mutant: an unknown target passes the validation
StatusAllowedMaisXPTO ==
    {"RASCUNHO", "APROVADO", "EM_EXECUCAO", "CONCLUIDO", "CANCELADO", "XPTO"}

StatusAllowed == {"RASCUNHO", "APROVADO", "EM_EXECUCAO", "CONCLUIDO", "CANCELADO"}

\* request values of POST /api/pedidos/<id>/status tried by the model
StatusData == StatusAllowed \cup {"cancelado", "XPTO"}

\* str.upper() on the request values
Upper(s) == IF s = "cancelado" THEN "CANCELADO" ELSE s

\* mutant: an approved order may be concluded without execution
transicoes_sem_execucao(atual) ==
    CASE atual = "RASCUNHO"    -> {"APROVADO", "CANCELADO"}
      [] atual = "APROVADO"    -> {"EM_EXECUCAO", "CANCELADO", "CONCLUIDO"}
      [] atual = "EM_EXECUCAO" -> {"CONCLUIDO", "CANCELADO"}
      [] OTHER                 -> {}

\* mutant: an order in execution may go back to approved
transicoes_volta(atual) ==
    CASE atual = "RASCUNHO"    -> {"APROVADO", "CANCELADO"}
      [] atual = "APROVADO"    -> {"EM_EXECUCAO", "CANCELADO"}
      [] atual = "EM_EXECUCAO" -> {"CONCLUIDO", "CANCELADO", "APROVADO"}
      [] OTHER                 -> {}

\* mutant: a draft may be concluded directly
transicoes_pula(atual) ==
    CASE atual = "RASCUNHO"    -> {"APROVADO", "CANCELADO", "CONCLUIDO"}
      [] atual = "APROVADO"    -> {"EM_EXECUCAO", "CANCELADO"}
      [] atual = "EM_EXECUCAO" -> {"CONCLUIDO", "CANCELADO"}
      [] OTHER                 -> {}

\* mutant: a cancelled order may be reopened
transicoes_reabre(atual) ==
    CASE atual = "RASCUNHO"    -> {"APROVADO", "CANCELADO"}
      [] atual = "APROVADO"    -> {"EM_EXECUCAO", "CANCELADO"}
      [] atual = "EM_EXECUCAO" -> {"CONCLUIDO", "CANCELADO"}
      [] atual = "CANCELADO"   -> {"RASCUNHO"}
      [] OTHER                 -> {}

\* mutant: an order in execution can only be concluded
transicoes_sem_cancelar_execucao(atual) ==
    CASE atual = "RASCUNHO"    -> {"APROVADO", "CANCELADO"}
      [] atual = "APROVADO"    -> {"EM_EXECUCAO", "CANCELADO"}
      [] atual = "EM_EXECUCAO" -> {"CONCLUIDO"}
      [] OTHER                 -> {}

transicoes_validas(atual) ==
    CASE atual = "RASCUNHO"    -> {"APROVADO", "CANCELADO"}
      [] atual = "APROVADO"    -> {"EM_EXECUCAO", "CANCELADO"}
      [] atual = "EM_EXECUCAO" -> {"CONCLUIDO", "CANCELADO"}
      [] atual = "CONCLUIDO"   -> {}
      [] atual = "CANCELADO"   -> {}
      [] OTHER                 -> {}

api_pedido_change_status(pedido_id, status) ==
    /\ UNCHANGED cadastros
    /\ UNCHANGED <<numeradores, pedido_itens, seq_itens, ordens_producao, writer, conn>>
    /\ LET novo == Upper(status)
           data == [status |-> status]
       IN
       IF novo \notin StatusAllowed
       THEN /\ resp' = Reply("change_status", pedido_id, 0, data, 400,
                             bad_request("Status invalido"))
            /\ UNCHANGED <<pedidos, pedido_logs>>
       ELSE IF pedido_id \notin DOMAIN pedidos
       THEN /\ resp' = Reply("change_status", pedido_id, 0, data, 404,
                             NotFound("pedido nao encontrado"))
            /\ UNCHANGED <<pedidos, pedido_logs>>
       ELSE LET atual == pedidos[pedido_id].status IN
            IF novo \notin transicoes_validas(atual)
            THEN /\ resp' = Reply("change_status", pedido_id, 0, data, 400,
                                  [error |-> "Transicao de status nao permitida",
                                   atual |-> atual, novo |-> novo])
                 /\ UNCHANGED <<pedidos, pedido_logs>>
            ELSE LET peds1 == [pedidos EXCEPT ![pedido_id].status = novo]
                     peds2 == recalc_pedido_totais(peds1, pedido_itens, pedido_id)
                 IN  /\ Len(pedido_logs) < MaxLogs
                     /\ pedidos' = peds2
                     /\ pedido_logs' = insert_pedido_logs(pedido_logs,
                            <<Log(pedido_id, "STATUS_CHANGED", [de |-> atual, para |-> novo])>>)
                     /\ resp' = Reply("change_status", pedido_id, 0, data, 200, peds2[pedido_id])

\* -------------------------------------------------- create_production_order
\* mutant: only the terminal statuses block a production order
OrdemBloqueadaSoTerminal(status_atual) == status_atual \in {"CONCLUIDO", "CANCELADO"}

\* status_atual not in {"APROVADO", "EM_EXECUCAO"}
OrdemBloqueada(status_atual) == status_atual \notin {"APROVADO", "EM_EXECUCAO"}

\* SELECT COUNT(1) FROM ordens_producao WHERE pedido_id=?
TotalOps(ops, pedido_id) ==
    Cardinality({i \in DOMAIN ops : ops[i].pedido_id = pedido_id})

\* mutant: the automatic step looks at the status read only
PrimeiraOrdemSemContagem(status_atual, total_ops) == status_atual = "APROVADO"

\* mutant: the count is compared as if taken before the insert
PrimeiraOrdemAntes(status_atual, total_ops) == status_atual = "APROVADO" /\ total_ops = 0

\* status_atual == "APROVADO" and total_ops == 1
PrimeiraOrdem(status_atual, total_ops) == status_atual = "APROVADO" /\ total_ops = 1

api_op_create(pedido_id) ==
    /\ UNCHANGED cadastros
    /\ UNCHANGED <<numeradores, pedido_itens, seq_itens, writer, conn>>
    /\ IF pedido_id \notin DOMAIN pedidos
       THEN /\ resp' = Reply("create_production_order", pedido_id, 0, NoData, 404,
                             NotFound("pedido nao encontrado"))
            /\ UNCHANGED <<pedidos, pedido_logs, ordens_producao>>
       ELSE IF OrdemBloqueada(pedidos[pedido_id].status)
       THEN /\ resp' = Reply("create_production_order", pedido_id, 0, NoData, 400,
                             bad_request("Pedido precisa estar APROVADO para gerar ordem"))
            /\ UNCHANGED <<pedidos, pedido_logs, ordens_producao>>
       ELSE LET status_atual == pedidos[pedido_id].status
                op_id        == Len(ordens_producao) + 1
                row          == [pedido_id |-> pedido_id, status |-> "planejada"]
                ops1         == Append(ordens_producao, row)
                auto         == PrimeiraOrdem(status_atual, TotalOps(ops1, pedido_id))
            IN  /\ Len(ordens_producao) < MaxOrdens
                /\ Len(pedido_logs) < MaxLogs
                /\ ordens_producao' = ops1
                /\ pedidos' = IF auto
                              THEN [pedidos EXCEPT ![pedido_id].status = "EM_EXECUCAO"]
                              ELSE pedidos
                /\ pedido_logs' = insert_pedido_logs(pedido_logs,
                         <<Log(pedido_id, "OP_CREATED", [ordem_producao_id |-> op_id])>>
                         \o (IF auto
                             THEN <<Log(pedido_id, "STATUS_CHANGED",
                                        [de |-> "APROVADO", para |-> "EM_EXECUCAO", auto |-> TRUE])>>
                             ELSE <<>>))
                /\ resp' = Reply("create_production_order", pedido_id, op_id, NoData, 201,
                                 [k \in {"id", "pedido_id", "status"} |->
                                     IF k = "id" THEN op_id ELSE row[k]])

\* POST /producao/ordens: inserts a production order with no check of the order
producao_ordem_create(pedido_id) ==
    /\ UNCHANGED cadastros
    /\ pedido_id \in DOMAIN pedidos        \* foreign key pedidos(id), foreign_keys = ON
    /\ Len(ordens_producao) < MaxOrdens
    /\ LET op_id == Len(ordens_producao) + 1
           row   == [pedido_id |-> pedido_id, status |-> "ABERTA"]
       IN  /\ ordens_producao' = Append(ordens_producao, row)
           /\ resp' = Reply("producao_ordem_create", pedido_id, op_id, NoData, 201,
                            [k \in {"id", "pedido_id", "status"} |->
                                IF k = "id" THEN op_id ELSE row[k]])
    /\ UNCHANGED <<numeradores, pedidos, pedido_itens, seq_itens, pedido_logs, writer, conn>>

\* ------------------------------------------------------------------- reads
\* mutant: the computed value is taken from the stored total
MetricasDoRegistrado(peds, itens, pedido_id) ==
    [pedido_id |-> pedido_id,
     valor_total_calc |-> peds[pedido_id].preco_total,
     valor_total_registrado |-> peds[pedido_id].preco_total,
     total_itens |-> Cardinality(ItensDoPedido(itens, pedido_id))]

\* the JSON api_pedido_metrics builds from the order row and its items
Metricas(peds, itens, pedido_id) ==
    [pedido_id |-> pedido_id,
     valor_total_calc |-> SomaItens(itens, ItensDoPedido(itens, pedido_id)),
     valor_total_registrado |-> peds[pedido_id].preco_total,
     total_itens |-> Cardinality(ItensDoPedido(itens, pedido_id))]

\* GET /api/pedidos/<id>/metrics
api_pedido_metrics(pedido_id) ==
    /\ UNCHANGED cadastros
    /\ resp' = IF pedido_id \notin DOMAIN pedidos
               THEN Reply("get_metrics", pedido_id, 0, NoData, 404,
                          NotFound("pedido nao encontrado"))
               ELSE Reply("get_metrics", pedido_id, 0, NoData, 200,
                          Metricas(pedidos, pedido_itens, pedido_id))
    /\ UNCHANGED <<numeradores, pedidos, pedido_itens, seq_itens, pedido_logs,
                   ordens_producao, writer, conn>>

\* GET /api/pedidos/<id>/logs
get_logs(pedido_id) ==
    /\ UNCHANGED cadastros
    /\ resp' = IF pedido_id \notin DOMAIN pedidos
               THEN Reply("get_logs", pedido_id, 0, NoData, 404,
                          NotFound("pedido nao encontrado"))
               ELSE Reply("get_logs", pedido_id, 0, NoData, 200,
                          [logs |-> api_pedido_logs(pedido_logs, pedido_id)])
    /\ UNCHANGED <<numeradores, pedidos, pedido_itens, seq_itens, pedido_logs,
                   ordens_producao, writer, conn>>

\* --------------------------------------------------------------------- Init
Idle == [pc |-> "idle"]

PedidoIds == 1..MaxPedidos   \* ids a request may name (the last may not exist yet)
ItemIds   == 1..MaxItens

\* ------------------------------------------------------------------ clients
\* f"C{nxt:05d}"
FormatC(nxt) == [prefix |-> "C", digits |-> ZeroPad(Digits(nxt), 5)]

ClienteRow(cnpj, codigo_interno) == [cnpj |-> cnpj, codigo_interno |-> codigo_interno]

\* the client the orders of the model are placed for, registered beforehand
ClientesIniciais == << ClienteRow(1, FormatC(0)) >>

Init ==
    /\ embalagem_master = EmbalagensIniciais
    /\ clientes = ClientesIniciais
    /\ numeradores = 0
    /\ pedidos = <<>>
    /\ pedido_itens = [i \in {} |-> 0]
    /\ seq_itens = 0
    /\ pedido_logs = <<>>
    /\ ordens_producao = <<>>
    /\ resp = Reply("none", 0, 0, NoData, 0, NoContent)
    /\ writer = 0
    /\ conn = [p \in Procs |-> Idle]

Next ==
    \/ \E data \in CreateData : api_pedidos_create(data)
    \/ \E pedido_id \in PedidoIds, data \in HeaderData : api_pedidos_update(pedido_id, data)
    \/ \E pedido_id \in PedidoIds, data \in AddData : api_pedido_itens_add(pedido_id, data)
    \/ \E pedido_id \in PedidoIds, item_id \in ItemIds : api_pedido_item_delete(pedido_id, item_id)
    \/ \E pedido_id \in PedidoIds, item_id \in ItemIds, data \in ItemData :
          api_pedido_item_update(pedido_id, item_id, data)
    \/ \E pedido_id \in PedidoIds, status \in StatusData :
          api_pedido_change_status(pedido_id, status)
    \/ \E pedido_id \in PedidoIds : api_op_create(pedido_id)
    \/ \E pedido_id \in PedidoIds : producao_ordem_create(pedido_id)
    \/ \E pedido_id \in PedidoIds : api_pedido_metrics(pedido_id)
    \/ \E pedido_id \in PedidoIds : get_logs(pedido_id)

Spec == Init /\ [][Next]_vars

\* ------------------------------------------------- several orders (SpecI)
\* The routes of the order core served one at a time on a database that
\* already holds MaxPedidosI draft orders, created one after the other.
MaxPedidosI == 2

PedidoIdsI == 1..MaxPedidosI

InitI ==
    /\ embalagem_master = EmbalagensIniciais
    /\ clientes = ClientesIniciais
    /\ numeradores = MaxPedidosI
    /\ pedidos = [i \in PedidoIdsI |->
                     NovoPedido(Pedido(1, NULL, NULL, NULL), FormatPED(i))]
    /\ pedido_itens = [i \in {} |-> 0]
    /\ seq_itens = 0
    /\ pedido_logs = [i \in PedidoIdsI |->
                         Log(i, "CREATED", [numero |-> FormatPED(i)])]
    /\ ordens_producao = <<>>
    /\ resp = Reply("create_order", MaxPedidosI, 0, Pedido(1, NULL, NULL, NULL), 201,
                    NovoPedido(Pedido(1, NULL, NULL, NULL), FormatPED(MaxPedidosI)))
    /\ writer = 0
    /\ conn = [p \in Procs |-> Idle]

NextI ==
    \/ \E pedido_id \in PedidoIdsI : api_pedidos_update(pedido_id, Patch1("preco_total", 7))
    \/ \E pedido_id \in PedidoIdsI, data \in {Item("EMB1", 5, 2), Item("EMB2", 3, 4)} :
          api_pedido_itens_add(pedido_id, data)
    \/ \E pedido_id \in PedidoIdsI, item_id \in ItemIds :
          api_pedido_item_delete(pedido_id, item_id)
    \/ \E pedido_id \in PedidoIdsI, item_id \in ItemIds :
          api_pedido_item_update(pedido_id, item_id, Patch1("qtd", 3))
    \/ \E pedido_id \in PedidoIdsI, status \in {"APROVADO", "CANCELADO"} :
          api_pedido_change_status(pedido_id, status)
    \/ \E pedido_id \in PedidoIdsI : api_op_create(pedido_id)
    \/ \E pedido_id \in PedidoIdsI : producao_ordem_create(pedido_id)

SpecI == InitI /\ [][NextI]_vars

\* ------------------------------------------- package specifications (SpecE)
\* The package registry is edited while orders take items from it.
EmbData ==
    { Embalagem("EMB1", None, "PVC", 7), Embalagem("EMB1", "R01", "PA", NULL),
      Embalagem("EMB1", "R02", "PE", NULL) }

\* POST /embalagens/<id>: the form rewrites the row unless another row
\* has the same code and revision
embalagens_update(id, data) ==
    /\ id \in DOMAIN embalagem_master
    /\ LET ex == {i \in SelectEmbalagem(embalagem_master, data.embalagem_code, data.rev) :
                     i # id}
       IN  IF ex # {}
           THEN /\ UNCHANGED embalagem_master
                /\ resp' = Reply("embalagens_update", 0, id, data, 302,
                                 [flash |-> "Ja existe outra embalagem com este Codigo/Rev."])
           ELSE /\ embalagem_master' = [embalagem_master EXCEPT ![id] = data]
                /\ resp' = Reply("embalagens_update", 0, id, data, 302,
                                 [flash |-> "Embalagem atualizada com sucesso!"])
    /\ UNCHANGED <<numeradores, pedidos, pedido_itens, seq_itens, pedido_logs,
                   ordens_producao, writer, conn, clientes>>

AddDataE ==
    { ItemRev("EMB1", None, 5, 2), ItemRev("EMB1", "R01", 3, 4),
      ItemRev("EMB1", "R02", 1, 1), ItemRev("EMB1", "", 1, 1) }

NextE ==
    \/ api_pedidos_create(Pedido(1, NULL, NULL, NULL))
    \/ \E pedido_id \in PedidoIds, data \in AddDataE : api_pedido_itens_add(pedido_id, data)
    \/ \E pedido_id \in PedidoIds, item_id \in ItemIds :
          api_pedido_item_update(pedido_id, item_id,
                                 Patch2("snapshot_material", "OUTRO", "qtd", 3))
    \/ \E id \in 1..Len(EmbalagensIniciais), data \in EmbData : embalagens_update(id, data)

SpecE == Init /\ [][NextE]_vars

\* ------------------------------------------- explicit totals (SpecT)
\* The order core on an order whose total is given by the client: at creation
\* and by the header patch, which writes preco_total as sent.
CreateDataT == { Pedido(1, NULL, NULL, 10), Pedido(1, NULL, NULL, NULL) }

AddDataT == { Item("EMB1", 5, 2), Item("EMB2", 3, 4) }

ItemDataT == { Patch1("status_impressao", "pendente"), Patch1("qtd", 3) }

NextT ==
    \/ \E data \in CreateDataT : api_pedidos_create(data)
    \/ \E pedido_id \in PedidoIds :
          api_pedidos_update(pedido_id, Patch1("preco_total", 7))
    \/ \E pedido_id \in PedidoIds, data \in AddDataT : api_pedido_itens_add(pedido_id, data)
    \/ \E pedido_id \in PedidoIds, item_id \in ItemIds : api_pedido_item_delete(pedido_id, item_id)
    \/ \E pedido_id \in PedidoIds, item_id \in ItemIds, data \in ItemDataT :
          api_pedido_item_update(pedido_id, item_id, data)
    \/ \E pedido_id \in PedidoIds, status \in StatusAllowed :
          api_pedido_change_status(pedido_id, status)
    \/ \E pedido_id \in PedidoIds : api_op_create(pedido_id)

SpecT == Init /\ [][NextT]_vars

\* ------------------------------------------- client registry (SpecK)
\* POST /api/clientes on an empty registry. A code is a prefix and a sequence
\* of characters; a character is a digit 0..9 or Letra, any other character.
MaxClientes == 3

Letra == 10

\* "": no code in the body, or blanks only (the handler strips the value)
SemCodigo == [prefix |-> "", digits |-> <<>>]

Codigo(prefix, digits) == [prefix |-> prefix, digits |-> digits]

\* codigo_interno LIKE 'C_____': six characters, the first a C in either case
Like(code) == code.prefix \in {"C", "c"} /\ Len(code.digits) = 5

\* _CLIENT_CODE_REGEX = ^C(\d{5})$
ClientCodeRegex(code) ==
    /\ code.prefix = "C"
    /\ Len(code.digits) = 5
    /\ \A n \in DOMAIN code.digits : code.digits[n] \in 0..9

\* mutant: the code is taken from the number of clients
generate_pela_contagem(tab) == FormatC(Len(tab))

\* generate_next_client_code: the greatest valid code plus one, C99999 when
\* the range is exhausted
generate_next_client_code(tab) ==
    LET seqs    == {IntOf(tab[i].codigo_interno.digits) :
                      i \in {j \in DOMAIN tab : /\ Like(tab[j].codigo_interno)
                                                /\ ClientCodeRegex(tab[j].codigo_interno)}}
        max_seq == IF seqs = {} THEN -1 ELSE CHOOSE n \in seqs : \A m \in seqs : m <= n
        nxt     == max_seq + 1
    IN  IF nxt > 99999 THEN FormatC(99999) ELSE FormatC(nxt)

\* request bodies of POST /api/clientes tried by the model
ClienteData ==
    { ClienteRow(c, k) :
        c \in {NULL, 1, 2, 3},
        k \in { SemCodigo,
                FormatC(5), FormatC(99999),
                Codigo("c", <<0, 0, 0, 0, 7>>),
                Codigo("C", <<0, 0, 0, 0, Letra>>),
                Codigo("C", <<0, 0, 0, 9>>),
                Codigo("X", <<0, 0, 0, 0, 8>>) } }

api_clientes_create(data) ==
    /\ UNCHANGED <<numeradores, pedidos, pedido_itens, seq_itens, pedido_logs,
                   ordens_producao, writer, conn, embalagem_master>>
    /\ IF data.cnpj = NULL
       THEN /\ resp' = Reply("create_client", 0, 0, data, 400,
                             bad_request("Preencha Razao social e CNPJ."))
            /\ UNCHANGED clientes
       ELSE IF \E i \in DOMAIN clientes : clientes[i].cnpj = data.cnpj
       THEN /\ resp' = Reply("create_client", 0, 0, data, 400,
                             bad_request("CNPJ ja cadastrado."))
            /\ UNCHANGED clientes
       ELSE LET codigo == IF data.codigo_interno = SemCodigo
                          THEN generate_next_client_code(clientes)
                          ELSE data.codigo_interno
                \* UNIQUE constraint failed: clientes.codigo_interno
                raised == \E i \in DOMAIN clientes : clientes[i].codigo_interno = codigo
                row    == ClienteRow(data.cnpj, codigo)
            IN  /\ raised \/ Len(clientes) < MaxClientes
                /\ clientes' = get_conn(raised, clientes, Append(clientes, row))
                /\ resp' = IF raised
                           THEN Reply("create_client", 0, 0, data, 500,
                                      [error |-> "IntegrityError"])
                           ELSE Reply("create_client", 0, 0, data, 201,
                                      [id |-> Len(clientes) + 1, cnpj |-> row.cnpj,
                                       codigo_interno |-> row.codigo_interno])

InitK ==
    /\ embalagem_master = EmbalagensIniciais
    /\ clientes = <<>>
    /\ numeradores = 0
    /\ pedidos = <<>>
    /\ pedido_itens = <<>>
    /\ seq_itens = 0
    /\ pedido_logs = <<>>
    /\ ordens_producao = <<>>
    /\ resp = Reply("none", 0, 0, NoData, 0, NoContent)
    /\ writer = 0
    /\ conn = [p \in Procs |-> Idle]

NextK == \E data \in ClienteData : api_clientes_create(data)

SpecK == InitK /\ [][NextK]_vars

\* ------------------------------------------- concurrent order creation (SpecC)
\* Each worker runs api_pedidos_create on its own connection.  Python's sqlite3
\* opens the transaction at the first INSERT/UPDATE, which takes SQLite's single
\* write lock; what a connection writes stays private to it until commit.
MaxCriacoes == 3     \* orders created by the concurrent workers

\* mutant: the lock is refused only to its own holder
LockLivreParaOutro(w, p) == w # p

\* mutant: the counter is read without holding the write lock
LockSempreLivre(w, p) == TRUE

\* the write lock is free for connection p
LockLivre(w, p) == w = 0

\* request accepted: with get_conn() as conn
C_Begin(p, data) ==
    /\ UNCHANGED cadastros
    /\ conn[p].pc = "idle"
    /\ UNCHANGED <<numeradores, pedidos, pedido_itens, seq_itens, pedido_logs,
                   ordens_producao, writer>>
    /\ IF data.cliente_id = NULL
       THEN /\ resp' = Reply("create_order", 0, 0, data, 400,
                             bad_request("cliente_id obrigatorio"))
            /\ UNCHANGED conn
       ELSE /\ Len(pedidos) < MaxCriacoes
            /\ conn' = [conn EXCEPT ![p] = [pc |-> "insert_or_ignore", data |-> data]]
            /\ UNCHANGED resp

\* INSERT OR IGNORE INTO numeradores: begins the transaction, takes the write lock
C_InsertOrIgnore(p) ==
    /\ UNCHANGED cadastros
    /\ conn[p].pc = "insert_or_ignore"
    /\ LockLivre(writer, p)
    /\ writer' = p
    /\ conn' = [conn EXCEPT ![p].pc = "select"]
    /\ UNCHANGED <<numeradores, pedidos, pedido_itens, seq_itens, pedido_logs,
                   ordens_producao, resp>>

\* the lock is held by another connection past the busy timeout:
\* sqlite3.OperationalError, the connection is closed without commit
C_Busy(p) ==
    /\ UNCHANGED cadastros
    /\ conn[p].pc = "insert_or_ignore"
    /\ writer # 0 /\ writer # p
    /\ conn' = [conn EXCEPT ![p] = Idle]
    /\ resp' = Reply("create_order", 0, 0, conn[p].data, 500,
                     [error |-> "database is locked"])
    /\ UNCHANGED <<numeradores, pedidos, pedido_itens, seq_itens, pedido_logs,
                   ordens_producao, writer>>

\* SELECT ultimo FROM numeradores
C_Select(p) ==
    /\ UNCHANGED cadastros
    /\ conn[p].pc = "select"
    /\ conn' = [conn EXCEPT ![p] =
                   [pc |-> "update", data |-> conn[p].data, ultimo |-> numeradores]]
    /\ UNCHANGED <<numeradores, pedidos, pedido_itens, seq_itens, pedido_logs,
                   ordens_producao, resp, writer>>

\* UPDATE numeradores SET ultimo=prox (uncommitted)
C_Update(p) ==
    /\ UNCHANGED cadastros
    /\ conn[p].pc = "update"
    /\ conn' = [conn EXCEPT ![p] =
                   [pc |-> "insert", data |-> conn[p].data,
                    prox |-> ProxNumero(conn[p].ultimo)]]
    /\ UNCHANGED <<numeradores, pedidos, pedido_itens, seq_itens, pedido_logs,
                   ordens_producao, resp, writer>>

\* CREATE UNIQUE INDEX idxu_pedidos_numero ON pedidos(numero_pedido)
NumeroExiste(peds, numero) == \E i \in DOMAIN peds : peds[i].numero_pedido = numero

\* INSERT INTO pedidos + INSERT INTO pedido_logs (uncommitted)
C_Insert(p) ==
    /\ UNCHANGED cadastros
    /\ conn[p].pc = "insert"
    /\ LET numero == FormatPED(conn[p].prox) IN
       IF NumeroExiste(pedidos, numero) \/ conn[p].data.cliente_id \notin DOMAIN clientes
       THEN \* sqlite3.IntegrityError: closed without commit, the lock is released
            /\ conn' = [conn EXCEPT ![p] = Idle]
            /\ writer' = IF writer = p THEN 0 ELSE writer
            /\ resp' = Reply("create_order", 0, 0, conn[p].data, 500,
                             [error |-> IF NumeroExiste(pedidos, numero)
                                        THEN "UNIQUE constraint failed"
                                        ELSE "FOREIGN KEY constraint failed"])
       ELSE /\ conn' = [conn EXCEPT ![p] =
                           [pc |-> "commit", data |-> conn[p].data,
                            prox |-> conn[p].prox,
                            row |-> NovoPedido(conn[p].data, numero)]]
            /\ UNCHANGED <<resp, writer>>
    /\ UNCHANGED <<numeradores, pedidos, pedido_itens, seq_itens, pedido_logs,
                   ordens_producao>>

\* conn.commit(): the transaction's writes become visible, the lock is released
C_Commit(p) ==
    /\ UNCHANGED cadastros
    /\ conn[p].pc = "commit"
    /\ LET pid == Len(pedidos) + 1 IN
       /\ numeradores' = conn[p].prox
       /\ pedidos' = Append(pedidos, conn[p].row)
       /\ pedido_logs' = insert_pedido_logs(pedido_logs,
                             <<Log(pid, "CREATED", [numero |-> conn[p].row.numero_pedido])>>)
       /\ resp' = Reply("create_order", pid, 0, conn[p].data, 201, conn[p].row)
    /\ writer' = IF writer = p THEN 0 ELSE writer
    /\ conn' = [conn EXCEPT ![p] = Idle]
    /\ UNCHANGED <<pedido_itens, seq_itens, ordens_producao>>

NextC ==
    \/ \E p \in Procs, data \in CreateData : C_Begin(p, data)
    \/ \E p \in Procs : C_InsertOrIgnore(p)
    \/ \E p \in Procs : C_Busy(p)
    \/ \E p \in Procs : C_Select(p)
    \/ \E p \in Procs : C_Update(p)
    \/ \E p \in Procs : C_Insert(p)
    \/ \E p \in Procs : C_Commit(p)

SpecC == Init /\ [][NextC]_vars

\* --------------------------------------- concurrent requests on an order (SpecR)
\* Two workers each serve one request against the order core while the other
\* may be serving its own.  A handler's SELECTs before its first INSERT, UPDATE
\* or DELETE run outside any transaction and see the committed state of that
\* moment; the first write statement opens the transaction and takes SQLite's
\* single write lock; what the transaction writes is private until commit.
AddDataR    == { Item("EMB1", 5, 2), Item("EMB2", 3, 4) }
ItemDataR   == { Patch1("qtd", 3) }
StatusDataR == { "APROVADO", "CANCELADO", "CONCLUIDO", "XPTO" }

Req(op, item_id, data) == [op |-> op, item_id |-> item_id, data |-> data]

\* the requests a worker may be handed
RequestsR ==
    {Req("add_item", 0, d) : d \in AddDataR}
    \cup {Req("delete_item", i, NoData) : i \in ItemIds}
    \cup {Req("update_item", i, d) : i \in ItemIds, d \in ItemDataR}
    \cup {Req("change_status", 0, [status |-> s]) : s \in StatusDataR}
    \cup {Req("create_production_order", 0, NoData)}

\* the locals of a handler at its entry
Handler(req, pedido_id) ==
    [pc |-> "idle", op |-> req.op, pedido_id |-> pedido_id, item_id |-> req.item_id,
     data |-> req.data, status |-> None, item |-> NoData, tx |-> NoData, code |-> 0]

\* the handler returns: the response is sent and the connection closed
Return(p, c, item_id, code, body) ==
    /\ conn' = [conn EXCEPT ![p] = [c EXCEPT !.pc = "done", !.item_id = item_id,
                                             !.tx = NoData, !.code = code]]
    /\ resp' = Reply(c.op, c.pedido_id, item_id, c.data, code, body)

\* the check each handler makes on the status it has read: the body of the
\* 400 it returns, or NoContent when the request may go on
Gate(c) ==
    CASE c.op = "add_item" ->
            IF ItensBloqueados(c.status)
            THEN bad_request("Pedido nao esta em RASCUNHO (itens bloqueados)")
            ELSE IF SelectEmbalagem(embalagem_master, c.data.embalagem_code, c.data.rev) = {}
            THEN bad_request("Embalagem nao encontrada para snapshot")
            ELSE NoContent
      [] c.op = "delete_item" ->
            IF ItensBloqueados(c.status)
            THEN bad_request("Itens so podem ser removidos em RASCUNHO")
            ELSE NoContent
      [] c.op = "update_item" ->
            IF ItemUpdateProibido(c.status)
            THEN bad_request("Pedido nao permite alteracoes em itens nesse status")
            ELSE NoContent
      [] c.op = "change_status" ->
            IF Upper(c.data.status) \notin transicoes_validas(c.status)
            THEN [error |-> "Transicao de status nao permitida",
                  atual |-> c.status, novo |-> Upper(c.data.status)]
            ELSE NoContent
      [] OTHER ->
            IF OrdemBloqueada(c.status)
            THEN bad_request("Pedido precisa estar APROVADO para gerar ordem")
            ELSE NoContent

\* SELECT ... FROM pedidos WHERE id=?: the handler reads the order's status
R_SelectPedido(p, pedido_id, req) ==
    /\ UNCHANGED cadastros
    /\ conn[p].pc = "idle"
    /\ UNCHANGED <<numeradores, pedidos, pedido_itens, seq_itens, pedido_logs,
                   ordens_producao, writer>>
    /\ LET c0 == Handler(req, pedido_id) IN
       IF req.op = "change_status" /\ Upper(req.data.status) \notin StatusAllowed
       THEN Return(p, c0, c0.item_id, 400, bad_request("Status invalido"))
       ELSE IF pedido_id \notin DOMAIN pedidos
       THEN Return(p, c0, c0.item_id, 404, NotFound("pedido nao encontrado"))
       ELSE LET c == [c0 EXCEPT !.status = pedidos[pedido_id].status] IN
            IF Gate(c) # NoContent
            THEN Return(p, c, c.item_id, 400, Gate(c))
            ELSE /\ conn' = [conn EXCEPT ![p] =
                                [c EXCEPT !.pc = IF c.op \in {"delete_item", "update_item"}
                                                 THEN "select_item" ELSE "write"]]
                 /\ UNCHANGED resp

\* SELECT ... FROM pedido_itens WHERE id=? AND pedido_id=?
R_SelectItem(p) ==
    /\ UNCHANGED cadastros
    /\ conn[p].pc = "select_item"
    /\ UNCHANGED <<numeradores, pedidos, pedido_itens, seq_itens, pedido_logs,
                   ordens_producao, writer>>
    /\ LET c == conn[p]
           allowed == AllowedItem(c.status)
       IN
       IF ~ItemDoPedido(pedido_itens, c.item_id, c.pedido_id)
       THEN Return(p, c, c.item_id, 404, NotFound("item nao encontrado"))
       ELSE IF c.op = "update_item" /\ Updates(c.data, allowed) = {}
       THEN Return(p, c, c.item_id, 400,
                   [error |-> "Nenhum campo permitido para atualizacao",
                    bloqueados |-> Blocked(c.data, allowed)])
       ELSE /\ conn' = [conn EXCEPT ![p] =
                           [c EXCEPT !.pc = "write", !.item = pedido_itens[c.item_id]]]
            /\ UNCHANGED resp

\* what a transaction leaves to commit: its view of the tables, and the answer
Tx(raised, peds, itens, seq, logs, ops, item_id, code, body) ==
    [raised |-> raised, pedidos |-> peds, pedido_itens |-> itens, seq_itens |-> seq,
     pedido_logs |-> logs, ordens_producao |-> ops,
     item_id |-> item_id, code |-> code, body |-> body]

\* api_pedido_itens_add from its INSERT on
TxAddItem(c) ==
    LET emb       == Fetchone(embalagem_master,
                              SelectEmbalagem(embalagem_master,
                                              c.data.embalagem_code, c.data.rev))
        iid       == seq_itens + 1
        row       == NovoItem(c.pedido_id, emb, c.data)
        itens1    == [i \in (DOMAIN pedido_itens) \cup {iid} |->
                         IF i = iid THEN row ELSE pedido_itens[i]]
        old_total == pedidos[c.pedido_id].preco_total
        peds1     == recalc_pedido_totais(pedidos, itens1, c.pedido_id)
    IN  Tx(FALSE, peds1, itens1, iid,
           insert_pedido_logs(pedido_logs,
               <<Log(c.pedido_id, "ITEM_ADDED",
                     [item_id |-> iid, embalagem_code |-> emb.embalagem_code])>>
               \o RecalcLog(c.pedido_id, old_total, peds1[c.pedido_id].preco_total, None)),
           ordens_producao, iid, 201, ItemJson(iid, row))

\* api_pedido_item_delete from its DELETE on
TxDeleteItem(c) ==
    LET itens1    == [i \in (DOMAIN pedido_itens) \ {c.item_id} |-> pedido_itens[i]]
        old_total == pedidos[c.pedido_id].preco_total
        peds1     == recalc_pedido_totais(pedidos, itens1, c.pedido_id)
    IN  Tx(FALSE, peds1, itens1, seq_itens,
           insert_pedido_logs(pedido_logs,
               <<Log(c.pedido_id, "ITEM_DELETED", [item_id |-> c.item_id])>>
               \o RecalcLog(c.pedido_id, old_total, peds1[c.pedido_id].preco_total, None)),
           ordens_producao, c.item_id, 204, NoContent)

\* api_pedido_item_update from its UPDATE on; when the row is gone the UPDATE
\* touches nothing and dict(row) of the final SELECT raises TypeError
TxUpdateItem(c) ==
    LET updates == Updates(c.data, AllowedItem(c.status)) IN
    IF c.item_id \notin DOMAIN pedido_itens
    THEN Tx(TRUE, pedidos, pedido_itens, seq_itens, pedido_logs, ordens_producao,
            c.item_id, 500, [error |-> "TypeError"])
    ELSE LET row       == AplicaUpdates(pedido_itens[c.item_id], c.data, updates)
             itens1    == [pedido_itens EXCEPT ![c.item_id] = row]
             diffs     == Diffs(c.item, c.data, updates)
             log1      == IF diffs # {}
                          THEN <<Log(c.pedido_id, "ITEM_UPDATED",
                                     [item_id |-> c.item_id,
                                      changes |-> [k \in diffs |->
                                          [de |-> c.item[k], para |-> c.data[k]]]])>>
                          ELSE <<>>
             old_total == pedidos[c.pedido_id].preco_total
             peds1     == recalc_pedido_totais(pedidos, itens1, c.pedido_id)
         IN  Tx(FALSE, peds1, itens1, seq_itens,
                insert_pedido_logs(pedido_logs,
                    log1 \o RecalcLog(c.pedido_id, old_total,
                                      peds1[c.pedido_id].preco_total, None)),
                ordens_producao, c.item_id, 200, ItemJson(c.item_id, row))

\* api_pedido_change_status from its UPDATE on: the entry carries the status read
TxChangeStatus(c) ==
    LET novo  == Upper(c.data.status)
        peds1 == [pedidos EXCEPT ![c.pedido_id].status = novo]
        peds2 == recalc_pedido_totais(peds1, pedido_itens, c.pedido_id)
    IN  Tx(FALSE, peds2, pedido_itens, seq_itens,
           insert_pedido_logs(pedido_logs,
               <<Log(c.pedido_id, "STATUS_CHANGED", [de |-> c.status, para |-> novo])>>),
           ordens_producao, c.item_id, 200, peds2[c.pedido_id])

\* api_op_create from its INSERT on: the test uses the status read, the count is
\* taken inside the transaction, the UPDATE names no status
TxOpCreate(c) ==
    LET op_id == Len(ordens_producao) + 1
        row   == [pedido_id |-> c.pedido_id, status |-> "planejada"]
        ops1  == Append(ordens_producao, row)
        auto  == PrimeiraOrdem(c.status, TotalOps(ops1, c.pedido_id))
    IN  Tx(FALSE,
           IF auto THEN [pedidos EXCEPT ![c.pedido_id].status = "EM_EXECUCAO"] ELSE pedidos,
           pedido_itens, seq_itens,
           insert_pedido_logs(pedido_logs,
               <<Log(c.pedido_id, "OP_CREATED", [ordem_producao_id |-> op_id])>>
               \o (IF auto
                   THEN <<Log(c.pedido_id, "STATUS_CHANGED",
                              [de |-> "APROVADO", para |-> "EM_EXECUCAO", auto |-> TRUE])>>
                   ELSE <<>>)),
           ops1, op_id, 201,
           [k \in {"id", "pedido_id", "status"} |-> IF k = "id" THEN op_id ELSE row[k]])

TxOf(c) ==
    CASE c.op = "add_item"      -> TxAddItem(c)
      [] c.op = "delete_item"   -> TxDeleteItem(c)
      [] c.op = "update_item"   -> TxUpdateItem(c)
      [] c.op = "change_status" -> TxChangeStatus(c)
      [] OTHER                  -> TxOpCreate(c)

\* the handler's first write statement and the rest of its body: the transaction
\* begins under the write lock and works on the state committed by then
R_Begin(p) ==
    /\ UNCHANGED cadastros
    /\ conn[p].pc = "write"
    /\ LockLivre(writer, p)
    /\ writer' = p
    /\ conn' = [conn EXCEPT ![p] = [conn[p] EXCEPT !.pc = "commit", !.tx = TxOf(conn[p])]]
    /\ UNCHANGED <<numeradores, pedidos, pedido_itens, seq_itens, pedido_logs,
                   ordens_producao, resp>>

\* the lock is held by another connection past the busy timeout:
\* sqlite3.OperationalError, the connection is closed without commit
R_Busy(p) ==
    /\ UNCHANGED cadastros
    /\ conn[p].pc = "write"
    /\ writer # 0 /\ writer # p
    /\ Return(p, conn[p], conn[p].item_id, 500, [error |-> "database is locked"])
    /\ UNCHANGED <<numeradores, pedidos, pedido_itens, seq_itens, pedido_logs,
                   ordens_producao, writer>>

\* leaving the with block: commit unless the body raised, then close
R_Commit(p) ==
    /\ UNCHANGED cadastros
    /\ conn[p].pc = "commit"
    /\ LET t == conn[p].tx IN
       /\ pedidos' = get_conn(t.raised, pedidos, t.pedidos)
       /\ pedido_itens' = get_conn(t.raised, pedido_itens, t.pedido_itens)
       /\ seq_itens' = get_conn(t.raised, seq_itens, t.seq_itens)
       /\ pedido_logs' = get_conn(t.raised, pedido_logs, t.pedido_logs)
       /\ ordens_producao' = get_conn(t.raised, ordens_producao, t.ordens_producao)
       /\ Return(p, conn[p], t.item_id, t.code, t.body)
    /\ writer' = IF writer = p THEN 0 ELSE writer
    /\ UNCHANGED numeradores

\* no request is being served: the order is prepared by requests served alone
Sozinho == \A p \in Procs : conn[p].pc = "idle"

NextR ==
    \/ Sozinho /\ api_pedidos_create(Pedido(1, NULL, NULL, NULL))
    \/ Sozinho /\ \E pedido_id \in PedidoIds, data \in AddDataR :
                      api_pedido_itens_add(pedido_id, data)
    \/ Sozinho /\ \E pedido_id \in PedidoIds : api_pedido_change_status(pedido_id, "APROVADO")
    \/ Sozinho /\ \E pedido_id \in PedidoIds : api_op_create(pedido_id)
    \/ \E p \in Procs, pedido_id \in PedidoIds, req \in RequestsR :
          R_SelectPedido(p, pedido_id, req)
    \/ \E p \in Procs : R_SelectItem(p)
    \/ \E p \in Procs : R_Begin(p)
    \/ \E p \in Procs : R_Busy(p)
    \/ \E p \in Procs : R_Commit(p)

SpecR == Init /\ [][NextR]_vars

\* ====================================================================== claims
\* The definitions below state the properties checked of the model; they are
\* written from the rule each property names, not from the handlers above.

CincoStatus == {"RASCUNHO", "APROVADO", "EM_EXECUCAO", "CONCLUIDO", "CANCELADO"}
Terminais   == {"CONCLUIDO", "CANCELADO"}
PosAprovado == {"status_impressao", "anel_extrusao"}
SnapshotCols == {"snapshot_material"}
ItemOps     == {"add_item", "update_item", "delete_item"}
Sucesso(r)  == r.code \in {200, 201, 204}

TabelaTransicoes ==
    [s \in CincoStatus |->
        CASE s = "RASCUNHO"    -> {"APROVADO", "CANCELADO"}
          [] s = "APROVADO"    -> {"EM_EXECUCAO", "CANCELADO"}
          [] s = "EM_EXECUCAO" -> {"CONCLUIDO", "CANCELADO"}
          [] OTHER             -> {}]

Zero(x) == IF x = NULL THEN 0 ELSE x

ItensDe(itens, pid) == {i \in DOMAIN itens : itens[i].pedido_id = pid}

RECURSIVE SomaRegra(_, _)
SomaRegra(itens, S) ==
    IF S = {} THEN 0
    ELSE LET i == CHOOSE x \in S : TRUE
         IN  Zero(itens[i].qtd) * Zero(itens[i].preco_unit) + SomaRegra(itens, S \ {i})

\* v is what the rule of the Totals Engine gives for order pid, where it gives a value
RegraAdmite(peds, itens, pid, v) ==
    /\ ItensDe(itens, pid) # {} => v = SomaRegra(itens, ItensDe(itens, pid))
    /\ (/\ ItensDe(itens, pid) = {}
        /\ peds[pid].preco_base # NULL
        /\ peds[pid].quantidade_planejada # NULL)
       => v = peds[pid].preco_base * peds[pid].quantidade_planejada

\* C1: in every state reached by any sequence of mutating operations, the stored
\* preco_total of every order is null or equal to the Totals Engine's value: the
\* sum of qtd*preco_unit over its items when it has items, otherwise
\* preco_base*quantidade_planejada when both are present.
C1_TotalNuloOuRegra ==
    \A pid \in DOMAIN pedidos :
        \/ pedidos[pid].preco_total = NULL
        \/ RegraAdmite(pedidos, pedido_itens, pid, pedidos[pid].preco_total)

\* C2: right after every add_item / update_item / delete_item that was carried
\* out, the stored preco_total of the order equals the sum over its current items,
\* or the fallback product when no item remains and both fallback fields are set.
C2_TotalAposItem ==
    (resp.op \in ItemOps /\ Sucesso(resp))
    => RegraAdmite(pedidos, pedido_itens, resp.pedido_id,
                   pedidos[resp.pedido_id].preco_total)

\* reached: the last item of an order with fallback fields 2 x 3 was deleted
C2_Witness ==
    /\ resp.op = "delete_item" /\ resp.code = 204
    /\ ItensDe(pedido_itens, resp.pedido_id) = {}
    /\ pedidos[resp.pedido_id].preco_base = 2
    /\ pedidos[resp.pedido_id].quantidade_planejada = 3
    /\ pedidos[resp.pedido_id].preco_total = 6

C3_Passo ==
    (/\ resp'.op = "change_status"
     /\ resp'.pedido_id \in DOMAIN pedidos
     /\ resp'.data.status \in CincoStatus)
    => LET pid   == resp'.pedido_id
           atual == pedidos[pid].status
           novo  == resp'.data.status
       IN  IF novo \in TabelaTransicoes[atual]
           THEN /\ resp'.code = 200
                /\ pedidos'[pid].status = novo
           ELSE /\ resp'.code = 400
                /\ resp'.body.error = "Transicao de status nao permitida"
                /\ resp'.body.atual = atual
                /\ resp'.body.novo = novo
                /\ pedidos' = pedidos
                /\ pedido_logs' = pedido_logs

\* C3: for every pair (current, requested) of recognized statuses outside the
\* transition table, change_status fails with the conflict naming both, the
\* status is unchanged and no audit entry is appended; for every pair in the
\* table it succeeds and the requested status is stored.
C3_Transicoes == [][C3_Passo]_vars

\* reached: a draft was asked to go straight to CONCLUIDO and was refused
C3_Witness ==
    /\ resp.op = "change_status" /\ resp.code = 400
    /\ "atual" \in DOMAIN resp.body
    /\ resp.body.atual = "RASCUNHO" /\ resp.body.novo = "CONCLUIDO"
    /\ pedidos[resp.pedido_id].status = "RASCUNHO"

\* C4: CONCLUIDO and CANCELADO are terminal: no step of any operation changes
\* the status of an order that is CONCLUIDO or CANCELADO.
C4_Terminal ==
    [][\A pid \in DOMAIN pedidos :
          pedidos[pid].status \in Terminais
          => pedidos'[pid].status = pedidos[pid].status]_vars

\* reached: a concluded order was asked to be cancelled and kept its status
C4_Witness ==
    /\ resp.op = "change_status" /\ resp.code = 400
    /\ resp.data.status = "CANCELADO"
    /\ resp.pedido_id \in DOMAIN pedidos
    /\ pedidos[resp.pedido_id].status = "CONCLUIDO"

\* C5: the snapshot fields of a line item never change after its creation: in
\* every step every item that exists before and after keeps each snapshot field.
C5_SnapshotImutavel ==
    [][\A i \in (DOMAIN pedido_itens) \cap (DOMAIN pedido_itens') :
          \A k \in SnapshotCols : pedido_itens'[i][k] = pedido_itens[i][k]]_vars

\* reached: an update naming snapshot_material together with status_impressao
\* was applied on an approved order, and the snapshot is still the package's
C5_Witness ==
    /\ resp.op = "update_item" /\ resp.code = 200
    /\ DOMAIN resp.data = {"snapshot_material", "status_impressao"}
    /\ pedidos[resp.pedido_id].status = "APROVADO"
    /\ pedido_itens[resp.item_id].status_impressao = "pendente"
    /\ pedido_itens[resp.item_id].snapshot_material = "PE"

\* C6: an update_item request naming permitted and forbidden fields applies the
\* permitted ones and its response reports the forbidden ones as blocked.
C6_RelataBloqueados ==
    (resp.op = "update_item" /\ resp.code = 200)
    => /\ \A k \in DOMAIN resp.data :
             k \in PosAprovado => pedido_itens[resp.item_id][k] = resp.data[k]
       /\ \A k \in (DOMAIN resp.data) \cap SnapshotCols :
             /\ "bloqueados" \in DOMAIN resp.body
             /\ k \in resp.body.bloqueados

C7_Passo ==
    (resp'.op \in {"update_item", "delete_item"} /\ resp'.pedido_id \in DOMAIN pedidos)
    => LET pid == resp'.pedido_id
           iid == resp'.item_id
           st  == pedidos[pid].status
       IN  /\ st \in Terminais
              => /\ resp'.code = 400
                 /\ pedido_itens' = pedido_itens
                 /\ pedidos' = pedidos
                 /\ pedido_logs' = pedido_logs
           /\ (/\ st \in {"APROVADO", "EM_EXECUCAO"}
               /\ resp'.op = "update_item"
               /\ iid \in DOMAIN pedido_itens
               /\ pedido_itens[iid].pedido_id = pid)
              => /\ \A k \in (DOMAIN pedido_itens[iid]) \ PosAprovado :
                       pedido_itens'[iid][k] = pedido_itens[iid][k]
                 /\ IF (DOMAIN resp'.data) \cap PosAprovado = {}
                    THEN /\ resp'.code = 400
                         /\ pedido_itens' = pedido_itens
                         /\ pedidos' = pedidos
                         /\ pedido_logs' = pedido_logs
                    ELSE /\ resp'.code = 200
                         /\ \A k \in (DOMAIN resp'.data) \cap PosAprovado :
                               pedido_itens'[iid][k] = resp'.data[k]

\* C7: on a CONCLUIDO or CANCELADO order every update_item and delete_item fails
\* and changes nothing; on an APROVADO or EM_EXECUCAO order update_item changes
\* only status_impressao and anel_extrusao, and a request naming none of them
\* fails and leaves the item, the stored total and the log unchanged.
C7_GateUpdate == [][C7_Passo]_vars

\* reached: a request to change qtd of an item of an approved order was refused
C7_Witness ==
    /\ resp.op = "update_item" /\ resp.code = 400
    /\ DOMAIN resp.data = {"qtd"}
    /\ resp.pedido_id \in DOMAIN pedidos
    /\ pedidos[resp.pedido_id].status = "APROVADO"
    /\ resp.item_id \in DOMAIN pedido_itens
    /\ "bloqueados" \in DOMAIN resp.body

C8_Passo ==
    /\ (/\ resp'.op \in {"add_item", "delete_item"}
        /\ resp'.pedido_id \in DOMAIN pedidos
        /\ pedidos[resp'.pedido_id].status # "RASCUNHO")
       => /\ resp'.code = 400
          /\ resp'.body.error \in {"Pedido nao esta em RASCUNHO (itens bloqueados)",
                                   "Itens so podem ser removidos em RASCUNHO"}
          /\ pedido_itens' = pedido_itens
          /\ pedidos' = pedidos
          /\ pedido_logs' = pedido_logs
    /\ \A pid \in DOMAIN pedidos :
          pedidos[pid].status # "RASCUNHO"
          => ItensDe(pedido_itens', pid) = ItensDe(pedido_itens, pid)

\* C8: add_item and delete_item on an order that is not RASCUNHO fail with the
\* items-blocked condition and leave items, stored total and log unchanged; the
\* set of items of an order never changes once the order has left RASCUNHO.
C8_ItensSoEmRascunho == [][C8_Passo]_vars

\* reached: a second item was refused on an approved order that has an item
C8_Witness ==
    /\ resp.op = "add_item" /\ resp.code = 400
    /\ resp.pedido_id \in DOMAIN pedidos
    /\ pedidos[resp.pedido_id].status = "APROVADO"
    /\ ItensDe(pedido_itens, resp.pedido_id) # {}

\* C9: the orders created, by concurrent or sequential requests, carry numbers
\* PED-NNNNNN (six digits) whose integers are strictly increasing in creation
\* order with no gap and no duplicate: each is the previous one plus one, the
\* first is the initial counter plus one, and the counter is the last number.
C9_NumerosSequenciais ==
    /\ \A i \in DOMAIN pedidos :
          LET n == pedidos[i].numero_pedido
          IN  /\ n.prefix = "PED-"
              /\ Len(n.digits) = 6
              /\ \A d \in DOMAIN n.digits : n.digits[d] \in 0..9
              /\ IntOf(n.digits) = i
    /\ \A i, j \in DOMAIN pedidos :
          i < j => IntOf(pedidos[i].numero_pedido.digits)
                     < IntOf(pedidos[j].numero_pedido.digits)
    /\ numeradores = Len(pedidos)

\* reached: two orders are committed while one worker holds the write lock and
\* the other waits for it with its own request
C9_Witness ==
    /\ Len(pedidos) >= 2
    /\ \E p \in Procs :
          /\ conn[p].pc = "insert_or_ignore"
          /\ writer # 0 /\ writer # p

C10_Passo ==
    (/\ resp'.op = "create_production_order" /\ resp'.code = 201
     /\ pedidos[resp'.pedido_id].status = "APROVADO"
     /\ \A o \in DOMAIN ordens_producao :
           ordens_producao[o].pedido_id # resp'.pedido_id)
    => LET pid == resp'.pedido_id
           n   == Len(pedido_logs)
       IN  /\ pedidos'[pid].status = "EM_EXECUCAO"
           /\ Len(pedido_logs') = n + 2
           /\ SubSeq(pedido_logs', 1, n) = pedido_logs
           /\ pedido_logs'[n + 1].pedido_id = pid
           /\ pedido_logs'[n + 1].acao = "OP_CREATED"
           /\ pedido_logs'[n + 2] =
                 [pedido_id |-> pid, acao |-> "STATUS_CHANGED",
                  detalhe |-> [de |-> "APROVADO", para |-> "EM_EXECUCAO", auto |-> TRUE]]

\* C10: when create_production_order succeeds on an APROVADO order that has no
\* production order yet, the same step stores EM_EXECUCAO and appends OP_CREATED
\* followed by STATUS_CHANGED {APROVADO -> EM_EXECUCAO, auto}, in that order.
C10_AutoTransicao == [][C10_Passo]_vars

\* reached: the first production order of an approved order was just created
C10_Witness ==
    /\ resp.op = "create_production_order" /\ resp.code = 201
    /\ pedidos[resp.pedido_id].status = "EM_EXECUCAO"
    /\ Len(pedido_logs) >= 2
    /\ pedido_logs[Len(pedido_logs) - 1].acao = "OP_CREATED"
    /\ pedido_logs[Len(pedido_logs)].acao = "STATUS_CHANGED"
    /\ "auto" \in DOMAIN pedido_logs[Len(pedido_logs)].detalhe

C11_Passo ==
    (resp'.op = "create_production_order" /\ resp'.pedido_id \in DOMAIN pedidos)
    => LET pid == resp'.pedido_id
           st  == pedidos[pid].status
       IN  IF st \in {"APROVADO", "EM_EXECUCAO"}
           THEN /\ resp'.code = 201
                /\ Len(ordens_producao') = Len(ordens_producao) + 1
           ELSE /\ resp'.code = 400
                /\ ordens_producao' = ordens_producao
                /\ pedido_logs' = pedido_logs
                /\ pedidos' = pedidos

\* C11: create_production_order on an order in RASCUNHO, CONCLUIDO or CANCELADO
\* fails: no production order is created, no OP_CREATED entry is appended and
\* the status is unchanged; on APROVADO or EM_EXECUCAO it creates the order.
C11_OrdemSoAprovado == [][C11_Passo]_vars

\* reached: a production order was refused for a draft that has none
C11_Witness ==
    /\ resp.op = "create_production_order" /\ resp.code = 400
    /\ resp.pedido_id \in DOMAIN pedidos
    /\ pedidos[resp.pedido_id].status = "RASCUNHO"
    /\ ordens_producao = <<>>

RecalcOps == ItemOps \cup {"change_status"}

C12_Passo ==
    (/\ resp.op \in RecalcOps /\ Sucesso(resp)
     /\ resp'.op = "update_item" /\ resp'.code = 200
     /\ resp'.pedido_id = resp.pedido_id
     /\ pedido_itens' = pedido_itens)
    => /\ pedidos'[resp'.pedido_id].preco_total = pedidos[resp'.pedido_id].preco_total
       /\ \A i \in (DOMAIN pedido_logs') \ (DOMAIN pedido_logs) :
             pedido_logs'[i].acao # "RECALC_TOTAL"

\* C12: recomputing twice in a row is idempotent: an update_item that changes no
\* value, right after an operation that recomputed the order's total, stores
\* the same preco_total and appends no RECALC_TOTAL entry.
C12_RecalcIdempotente == [][C12_Passo]_vars

\* reached: qtd = 3 was sent for the item just added with qtd 3; the log still
\* ends with the RECALC_TOTAL of the add and the total is still 3 x 4
C12_Witness ==
    /\ resp.op = "update_item" /\ resp.code = 200
    /\ DOMAIN resp.data = {"qtd"} /\ resp.data.qtd = 3
    /\ Len(pedido_logs) = 3
    /\ pedido_logs[3].acao = "RECALC_TOTAL"
    /\ pedido_logs[3].detalhe.para = 12
    /\ pedidos[resp.pedido_id].preco_total = 12

C13_Passo ==
    (/\ resp'.op \in {"delete_item", "change_status"} /\ Sucesso(resp')
     /\ ItensDe(pedido_itens', resp'.pedido_id) = {}
     /\ \/ pedidos'[resp'.pedido_id].preco_base = NULL
        \/ pedidos'[resp'.pedido_id].quantidade_planejada = NULL)
    => pedidos'[resp'.pedido_id].preco_total = pedidos[resp'.pedido_id].preco_total

\* C13: when an order has no items and preco_base or quantidade_planejada is
\* missing, the recomputation run by deleting the last item or by a status
\* change leaves the stored preco_total as it was.
C13_TotalPreservado == [][C13_Passo]_vars

PrecoCampos == {"preco_base", "quantidade_planejada", "quantidade_tipo"}

\* the mutations after which the total is recomputed (a patch of preco_base is
\* left out: the handler also copies it into the total before recomputing)
C14_Gatilho(r) ==
    \/ r.op \in ItemOps
    \/ r.op = "change_status"
    \/ r.op = "update_order_header" /\ DOMAIN r.data \subseteq PrecoCampos \ {"preco_base"}

C14_Passo ==
    (/\ C14_Gatilho(resp') /\ Sucesso(resp')
     /\ pedidos'[resp'.pedido_id].preco_total # pedidos[resp'.pedido_id].preco_total)
    => \E i \in (DOMAIN pedido_logs') \ (DOMAIN pedido_logs) :
          /\ pedido_logs'[i].pedido_id = resp'.pedido_id
          /\ pedido_logs'[i].acao = "RECALC_TOTAL"
          /\ pedido_logs'[i].detalhe.de = pedidos[resp'.pedido_id].preco_total
          /\ pedido_logs'[i].detalhe.para = pedidos'[resp'.pedido_id].preco_total
          /\ pedido_logs'[i].detalhe.motivo # None

\* C14: whenever an item add, update or delete, a header patch of price fields
\* or a status change leaves a stored total different from the one before, the
\* same operation appends a RECALC_TOTAL entry carrying the old value, the new
\* value and a reason.
C14_RecalcAuditado == [][C14_Passo]_vars

C15_Passo ==
    (/\ resp'.op = "change_status" /\ resp'.code = 200
     /\ resp'.data.status \in CincoStatus)
    => LET pid == resp'.pedido_id
       IN  /\ pedidos'[pid].status = resp'.data.status
           /\ pedido_logs' =
                 Append(pedido_logs,
                        [pedido_id |-> pid, acao |-> "STATUS_CHANGED",
                         detalhe |-> [de |-> pedidos[pid].status,
                                      para |-> resp'.data.status]])
           /\ RegraAdmite(pedidos', pedido_itens', pid, pedidos'[pid].preco_total)

\* C15: a successful change_status stores the requested status, appends exactly
\* one STATUS_CHANGED entry from the status before the call to the requested
\* one, and leaves the total as the Totals Engine computes it.
C15_MudancaDeStatus == [][C15_Passo]_vars

\* reached: an order with an item worth 5 x 2 was approved
C15_Witness ==
    /\ resp.op = "change_status" /\ resp.code = 200
    /\ pedidos[resp.pedido_id].status = "APROVADO"
    /\ pedido_logs[Len(pedido_logs)].acao = "STATUS_CHANGED"
    /\ pedido_logs[Len(pedido_logs)].detalhe.de = "RASCUNHO"
    /\ ItensDe(pedido_itens, resp.pedido_id) # {}
    /\ pedidos[resp.pedido_id].preco_total = 10

\* the five statuses as a request may spell them (letter case is not significant)
Reconhecidos == CincoStatus \cup {"cancelado"}

C16_Passo ==
    (resp'.op = "change_status" /\ resp'.data.status \notin Reconhecidos)
    => /\ resp'.code = 400
       /\ resp'.body = [error |-> "Status invalido"]
       /\ UNCHANGED <<numeradores, pedidos, pedido_itens, seq_itens,
                      pedido_logs, ordens_producao>>

\* C16: a change_status request whose target is none of the five statuses gets
\* the validation error whatever the order's status, and also when the order
\* does not exist; nothing is modified.
C16_StatusInvalido == [][C16_Passo]_vars

\* reached: an unknown target was refused for an order id that does not exist
C16_Witness ==
    /\ resp.op = "change_status" /\ resp.code = 400
    /\ resp.data.status = "XPTO"
    /\ resp.body.error = "Status invalido"
    /\ resp.pedido_id \notin DOMAIN pedidos

\* the entries of one order, in the order they were written
LogsDe(logs, pid) == SelectSeq(logs, LAMBDA r : r.pedido_id = pid)

Prefixo(a, b) == Len(a) <= Len(b) /\ SubSeq(b, 1, Len(a)) = a

\* C17: the audit log is append-only: in every step, for every order, the
\* order's entries before the step are a prefix of its entries after it, and
\* so is the whole log; no entry is modified or deleted.
C17_LogSoCresce ==
    [][/\ Prefixo(pedido_logs, pedido_logs')
       /\ \A pid \in DOMAIN pedidos' :
             Prefixo(LogsDe(pedido_logs, pid), LogsDe(pedido_logs', pid))]_vars

\* reached: an item row was deleted and the order's log holds the whole history
C17_Witness ==
    /\ resp.op = "delete_item" /\ resp.code = 204
    /\ Len(LogsDe(pedido_logs, resp.pedido_id)) >= 4
    /\ \E i \in DOMAIN pedido_logs : pedido_logs[i].acao = "ITEM_ADDED"
    /\ \E i \in DOMAIN pedido_logs : pedido_logs[i].acao = "ITEM_DELETED"

\* C18: for every order get_logs returns all its entries in creation order; the
\* first is CREATED and no other is; every ITEM_ADDED comes before every
\* STATUS_CHANGED, and every OP_CREATED comes after a STATUS_CHANGED.
C18_OrdemDoLog ==
    \A pid \in DOMAIN pedidos :
        LET L == api_pedido_logs(pedido_logs, pid)
        IN  /\ Len(L) >= 1
            /\ L[1].acao = "CREATED"
            /\ \A i \in 2..Len(L) : L[i].acao # "CREATED"
            /\ \A i, j \in DOMAIN L : i < j => L[i].id < L[j].id
            /\ {L[i].id : i \in DOMAIN L}
                  = {k \in DOMAIN pedido_logs : pedido_logs[k].pedido_id = pid}
            /\ \A i, j \in DOMAIN L :
                  (L[i].acao = "ITEM_ADDED" /\ L[j].acao = "STATUS_CHANGED") => i < j
            /\ \A j \in DOMAIN L :
                  L[j].acao = "OP_CREATED"
                  => \E i \in 1..(j - 1) : L[i].acao = "STATUS_CHANGED"

\* reached: the basic flow create, add item, approve, create production order
C18_Witness ==
    \E pid \in DOMAIN pedidos :
        LET L == api_pedido_logs(pedido_logs, pid)
        IN  /\ Len(L) >= 5
            /\ L[1].acao = "CREATED"
            /\ L[2].acao = "ITEM_ADDED"
            /\ \E i, j \in DOMAIN L :
                  /\ i < j
                  /\ L[i].acao = "STATUS_CHANGED"
                  /\ L[j].acao = "OP_CREATED"

TagsFechadas == {"CREATED", "ITEM_ADDED", "ITEM_UPDATED", "ITEM_DELETED",
                 "STATUS_CHANGED", "RECALC_TOTAL", "OP_CREATED"}

\* C19: every audit entry written by the core operations carries an action tag
\* of the closed set CREATED, ITEM_ADDED, ITEM_UPDATED, ITEM_DELETED,
\* STATUS_CHANGED, RECALC_TOTAL, OP_CREATED.
C19_TagsFechadas ==
    \A i \in DOMAIN pedido_logs : pedido_logs[i].acao \in TagsFechadas

\* what a header patch that was carried out may not touch
C20_SoListaPermitida ==
    (resp'.op = "update_order_header" /\ resp'.code = 200)
    => /\ \A k \in {"status", "numero_pedido", "data_emissao"} :
             pedidos'[resp'.pedido_id][k] = pedidos[resp'.pedido_id][k]
       /\ pedido_itens' = pedido_itens

C20_ForaDeRascunho ==
    /\ resp'.op = "update_order_header"
    /\ resp'.pedido_id \in DOMAIN pedidos
    /\ pedidos[resp'.pedido_id].status # "RASCUNHO"

C20_NadaMuda ==
    /\ resp'.code = 400
    /\ pedidos' = pedidos
    /\ pedido_itens' = pedido_itens
    /\ pedido_logs' = pedido_logs

\* C20 as stated: update_order_header on an order that is not RASCUNHO fails
\* with the not-editable error and changes nothing; when it succeeds it never
\* changes the status, the order number, the issue date or the items.
C20_SempreNaoEditavel ==
    [][/\ C20_ForaDeRascunho
          => /\ C20_NadaMuda
             /\ resp'.body.error = "Pedido nao pode mais ser editado"
       /\ C20_SoListaPermitida]_vars

\* C20 amended: update_order_header on an order that is not RASCUNHO fails and
\* changes nothing; the error is the not-editable one when the patch names a
\* field of the allow-list, and the no-permitted-field validation error when it
\* names none; when it succeeds it never changes the status, the order number,
\* the issue date or the items.
C20_HeaderSoEmRascunho ==
    [][/\ C20_ForaDeRascunho
          => /\ C20_NadaMuda
             /\ resp'.body.error =
                   IF (DOMAIN resp'.data) \cap allowed_fields # {}
                   THEN "Pedido nao pode mais ser editado"
                   ELSE "Nenhum campo permitido para atualizacao"
       /\ C20_SoListaPermitida]_vars

\* reached: a patch of preco_base was refused for an approved order
C20_Witness ==
    /\ resp.op = "update_order_header" /\ resp.code = 400
    /\ "preco_base" \in DOMAIN resp.data
    /\ resp.body.error = "Pedido nao pode mais ser editado"
    /\ resp.pedido_id \in DOMAIN pedidos
    /\ pedidos[resp.pedido_id].status = "APROVADO"

C21_Passo ==
    (resp'.op = "create_order" /\ resp'.code = 201)
    => LET pid == Len(pedidos) + 1
           num == pedidos'[pid].numero_pedido
       IN  /\ Len(pedidos') = pid
           /\ SubSeq(pedidos', 1, Len(pedidos)) = pedidos
           /\ resp'.pedido_id = pid
           /\ pedidos'[pid].status = "RASCUNHO"
           /\ num.prefix = "PED-"
           /\ IntOf(num.digits) = numeradores + 1
           /\ numeradores' = numeradores + 1
           /\ \A i \in DOMAIN pedidos : pedidos[i].numero_pedido # num
           /\ pedido_logs' =
                 Append(pedido_logs,
                        [pedido_id |-> pid, acao |-> "CREATED",
                         detalhe |-> [numero |-> num]])

\* C21: every order created by create_order starts in RASCUNHO with the next
\* number of the counter, whatever the request carries (a status or a number
\* sent by the caller is not used), and a CREATED entry is appended for it.
C21_CriadoEmRascunho == [][C21_Passo]_vars

\* reached: an order was created from a body carrying status APROVADO and
\* number PED-000009; it is a draft numbered PED-000001
C21_Witness ==
    /\ resp.op = "create_order" /\ resp.code = 201
    /\ "status" \in DOMAIN resp.data
    /\ resp.data.status = "APROVADO"
    /\ pedidos[resp.pedido_id].status = "RASCUNHO"
    /\ pedidos[resp.pedido_id].numero_pedido.digits = <<0, 0, 0, 0, 0, 1>>

C22_Passo ==
    (resp'.op = "get_metrics")
    => /\ UNCHANGED <<numeradores, pedidos, pedido_itens, seq_itens,
                      pedido_logs, ordens_producao>>
       /\ resp'.pedido_id \in DOMAIN pedidos
          => /\ resp'.code = 200
             /\ resp'.body.total_itens
                   = Cardinality(ItensDe(pedido_itens, resp'.pedido_id))
             /\ resp'.body.valor_total_calc
                   = SomaRegra(pedido_itens, ItensDe(pedido_itens, resp'.pedido_id))

\* C22: get_metrics changes no order, item or log; it returns total_itens equal
\* to the number of the order's items and valor_total_calc equal to the sum of
\* qtd*preco_unit over them (null as zero), whatever the stored preco_total is.
C22_Metricas == [][C22_Passo]_vars

\* reached: metrics of an order with items 5 x 2 and 3 x 4
C22_Witness ==
    /\ resp.op = "get_metrics" /\ resp.code = 200
    /\ resp.body.total_itens = 2
    /\ resp.body.valor_total_calc = 22

MutOps == {"create_order", "update_order_header", "add_item", "update_item",
           "delete_item", "change_status", "create_production_order"}

C23_Passo ==
    (resp'.op \in MutOps /\ ~Sucesso(resp'))
    => UNCHANGED <<numeradores, pedidos, pedido_itens, seq_itens,
                   pedido_logs, ordens_producao>>

\* C23: an operation that answers with an error, or that fails midway, commits
\* none of its effects: orders, items, stored totals, the order-number counter
\* and the audit log are exactly as before the call.
C23_Atomico == [][C23_Passo]_vars

\* reached: a create failed at its INSERT after the counter had been advanced
\* in the same transaction; the counter is still the last committed number
C23_Witness ==
    /\ resp.op = "create_order" /\ resp.code = 500
    /\ numeradores = 1
    /\ Len(pedidos) = 1

C25_Passo ==
    \A pid \in DOMAIN pedidos :
        pedidos'[pid].status # pedidos[pid].status
        => /\ resp'.pedido_id = pid
           /\ \/ resp'.op = "change_status" /\ resp'.code = 200
              \/ /\ resp'.op = "create_production_order" /\ resp'.code = 201
                 /\ pedidos[pid].status = "APROVADO"
                 /\ pedidos'[pid].status = "EM_EXECUCAO"

\* C25: the status of an order changes only in a successful change_status or
\* in the automatic APROVADO -> EM_EXECUCAO step of create_production_order;
\* no other operation changes the status of any order.
C25_QuemMudaStatus == [][C25_Passo]_vars

\* reached: a header patch naming status was carried out on a draft
C25_Witness ==
    /\ resp.op = "update_order_header" /\ resp.code = 200
    /\ "status" \in DOMAIN resp.data
    /\ pedidos[resp.pedido_id].status = "RASCUNHO"

\* the STATUS_CHANGED entries of one order, in creation order
MudancasDe(logs, pid) ==
    SelectSeq(LogsDe(logs, pid), LAMBDA r : r.acao = "STATUS_CHANGED")

\* C26: for every order, its STATUS_CHANGED entries in creation order form a
\* chain from RASCUNHO, every link an allowed transition, and the current
\* status is the target of the last one, or RASCUNHO when there is none.
C26_HistoricoDeStatus ==
    \A pid \in DOMAIN pedidos :
        LET S == MudancasDe(pedido_logs, pid)
        IN  IF Len(S) = 0
            THEN pedidos[pid].status = "RASCUNHO"
            ELSE /\ S[1].detalhe.de = "RASCUNHO"
                 /\ \A i \in 1..(Len(S) - 1) : S[i + 1].detalhe.de = S[i].detalhe.para
                 /\ \A i \in DOMAIN S :
                       S[i].detalhe.para \in TabelaTransicoes[S[i].detalhe.de]
                 /\ pedidos[pid].status = S[Len(S)].detalhe.para

\* reached: a concluded order whose chain has three links, one of them automatic
C26_Witness ==
    \E pid \in DOMAIN pedidos :
        LET S == MudancasDe(pedido_logs, pid)
        IN  /\ pedidos[pid].status = "CONCLUIDO"
            /\ Len(S) = 3
            /\ "auto" \in DOMAIN S[2].detalhe

Ordem ==
    [s \in CincoStatus |->
        CASE s = "RASCUNHO" -> 0 [] s = "APROVADO" -> 1
          [] s = "EM_EXECUCAO" -> 2 [] OTHER -> 3]

Anterior ==
    [s \in {"APROVADO", "EM_EXECUCAO", "CONCLUIDO"} |->
        CASE s = "APROVADO" -> "RASCUNHO" [] s = "EM_EXECUCAO" -> "APROVADO"
          [] OTHER -> "EM_EXECUCAO"]

C27_Passo ==
    /\ \A pid \in DOMAIN pedidos :
          LET de == pedidos[pid].status
              para == pedidos'[pid].status
          IN  /\ Ordem[para] >= Ordem[de]
              /\ (para # de /\ para # "CANCELADO") => de = Anterior[para]
    /\ (/\ resp'.op = "change_status"
        /\ resp'.pedido_id \in DOMAIN pedidos
        /\ \/ resp'.data.status = "RASCUNHO"
           \/ /\ resp'.data.status = "CONCLUIDO"
              /\ pedidos[resp'.pedido_id].status \in {"RASCUNHO", "APROVADO"})
       => /\ resp'.code = 400
          /\ resp'.body.error = "Transicao de status nao permitida"
          /\ pedidos' = pedidos

\* C27: no path skips a status: an order becomes APROVADO only from RASCUNHO,
\* EM_EXECUCAO only from APROVADO and CONCLUIDO only from EM_EXECUCAO; a request
\* for CONCLUIDO from RASCUNHO or APROVADO and every request for RASCUNHO fail
\* with the conflict; the status never moves backwards in the order
\* RASCUNHO < APROVADO < EM_EXECUCAO < {CONCLUIDO, CANCELADO}.
C27_SemAtalho == [][C27_Passo]_vars

\* reached: an order in execution was asked to go back to RASCUNHO and refused
C27_Witness ==
    /\ resp.op = "change_status" /\ resp.code = 400
    /\ resp.data.status = "RASCUNHO"
    /\ "atual" \in DOMAIN resp.body
    /\ resp.body.atual = "EM_EXECUCAO"
    /\ pedidos[resp.pedido_id].status = "EM_EXECUCAO"

\* C24: when both workers have completed an item mutation on one and the same order,
\* the stored preco_total is the sum of qtd*preco_unit over the items the order
\* has then, and neither mutation is lost: two additions leave two distinct items.
C24_SemPerda ==
    (/\ \A p \in Procs : conn[p].pc = "done" /\ conn[p].op \in ItemOps /\ Sucesso(conn[p])
     /\ \A p, q \in Procs : conn[q].pedido_id = conn[p].pedido_id)
    => \A p \in Procs :
          LET pid == conn[p].pedido_id IN
          /\ RegraAdmite(pedidos, pedido_itens, pid, pedidos[pid].preco_total)
          /\ (\A q \in Procs : conn[q].op = "add_item")
             => /\ \A q \in Procs : ItemDoPedido(pedido_itens, conn[q].item_id, pid)
                /\ \A q \in Procs \ {p} : conn[q].item_id # conn[p].item_id

\* reached: the two workers each added an item, 5 x 2 and 3 x 4, to an order
\* that had none; the stored total is 22
C24_Witness ==
    /\ \A p \in Procs : conn[p].pc = "done" /\ conn[p].op = "add_item" /\ conn[p].code = 201
    /\ conn[1].data # conn[2].data
    /\ Cardinality(ItensDe(pedido_itens, 1)) = 2
    /\ pedidos[1].preco_total = 22

\* the automatic STATUS_CHANGED entries of one order
AutoDe(logs, pid) ==
    SelectSeq(MudancasDe(logs, pid), LAMBDA r : "auto" \in DOMAIN r.detalhe)

\* C28: when the two workers both read one and the same order as APROVADO and
\* both created a production order, the order has two production orders, it is EM_EXECUCAO
\* and its log holds exactly one automatic STATUS_CHANGED entry.
C28_AutoUmaVez ==
    (/\ \A p \in Procs : /\ conn[p].pc = "done"
                         /\ conn[p].op = "create_production_order"
                         /\ conn[p].code = 201
                         /\ conn[p].status = "APROVADO"
     /\ \A p, q \in Procs : conn[q].pedido_id = conn[p].pedido_id)
    => \A p \in Procs :
          LET pid == conn[p].pedido_id IN
          /\ TotalOps(ordens_producao, pid) = 2
          /\ pedidos[pid].status = "EM_EXECUCAO"
          /\ Len(AutoDe(pedido_logs, pid)) = 1

\* reached: both workers read APROVADO before either committed, and both
\* answered 201 with different production orders
C28_Witness ==
    /\ \A p \in Procs : /\ conn[p].pc = "done"
                        /\ conn[p].op = "create_production_order"
                        /\ conn[p].code = 201
                        /\ conn[p].status = "APROVADO"
    /\ conn[1].item_id # conn[2].item_id
    /\ Len(ordens_producao) = 2

\* C29: no automatic STATUS_CHANGED entry follows a STATUS_CHANGED entry to
\* CANCELADO in the log of an order, and an order with such an entry is not
\* EM_EXECUCAO: the automatic update does not overwrite a cancellation that
\* committed after create_production_order read the status.
C29_CanceladoFica ==
    \A pid \in DOMAIN pedidos :
        LET S == MudancasDe(pedido_logs, pid) IN
        \A i \in DOMAIN S :
            S[i].detalhe.para = "CANCELADO"
            => /\ pedidos[pid].status # "EM_EXECUCAO"
               /\ \A j \in DOMAIN S : j > i => "auto" \notin DOMAIN S[j].detalhe

C30_Passo ==
    \A pid \in DOMAIN pedidos :
        pedidos[pid].status # "RASCUNHO"
        => \A i \in ItensDe(pedido_itens, pid) \cup ItensDe(pedido_itens', pid) :
              /\ i \in DOMAIN pedido_itens
              /\ i \in DOMAIN pedido_itens'

\* C30: once the approval of an order has committed, no step of a concurrent
\* add_item or delete_item inserts an item into it or removes one from it: the
\* item set of an order changes only while its stored status is RASCUNHO.
C30_ItensFechados == [][C30_Passo]_vars

C31_Passo ==
    (resp'.op = "create_production_order" /\ resp'.code = 201)
    => /\ pedidos'[resp'.pedido_id].status = "EM_EXECUCAO"
       /\ \A pid \in DOMAIN pedidos' :
             TotalOps(ordens_producao', pid) > 0 => pedidos'[pid].status # "APROVADO"

\* C31: after every successful create_production_order the order is
\* EM_EXECUCAO, and no order that owns a production order is APROVADO, also
\* when production orders were linked to it through /producao/ordens before
\* it was approved.
C31_OrdemPoeEmExecucao == [][C31_Passo]_vars

OrdemNaoEncontrada == "pedido nao encontrado"

NaoEncontrado == {OrdemNaoEncontrada, "item nao encontrado",
                  "Embalagem nao encontrada para snapshot"}

\* the status conflict of each gated operation, for an order in status st
ConflitoDe(op, st) ==
    CASE op = "add_item" /\ st # "RASCUNHO" ->
            "Pedido nao esta em RASCUNHO (itens bloqueados)"
      [] op = "delete_item" /\ st # "RASCUNHO" ->
            "Itens so podem ser removidos em RASCUNHO"
      [] op = "update_item" /\ st \in Terminais ->
            "Pedido nao permite alteracoes em itens nesse status"
      [] op = "create_production_order" /\ st \notin {"APROVADO", "EM_EXECUCAO"} ->
            "Pedido precisa estar APROVADO para gerar ordem"
      [] OTHER -> ""

C32_Passo ==
    (resp'.op \in ItemOps \cup {"create_production_order"})
    => IF resp'.pedido_id \notin DOMAIN pedidos
       THEN resp'.code = 404 /\ resp'.body.error = OrdemNaoEncontrada
       ELSE LET conflito == ConflitoDe(resp'.op, pedidos[resp'.pedido_id].status) IN
            /\ conflito # ""
               => /\ resp'.code = 400
                  /\ resp'.body.error = conflito
                  /\ UNCHANGED db
            /\ (conflito = "" /\ ~Sucesso(resp'))
               => /\ resp'.body.error # OrdemNaoEncontrada
                  /\ \A op \in ItemOps \cup {"create_production_order"},
                        st \in CincoStatus : resp'.body.error # ConflitoDe(op, st)

\* C32: in add_item, update_item, delete_item and create_production_order a
\* missing order always answers order-not-found; for an existing order whose
\* status forbids the operation the answer is the status conflict, whether or
\* not the item or the package exists; a request refused for another reason
\* never carries a conflict message.
C32_Precedencia == [][C32_Passo]_vars

\* reached: an item naming an unknown package was sent to an approved order and
\* refused for the status, not for the package
C32_Witness ==
    /\ resp.op = "add_item" /\ resp.code = 400
    /\ SelectEmbalagem(embalagem_master, resp.data.embalagem_code, resp.data.rev) = {}
    /\ pedidos[resp.pedido_id].status = "APROVADO"
    /\ resp.body.error = "Pedido nao esta em RASCUNHO (itens bloqueados)"

\* the rows of a table that belong to order pid, with their ids
LinhasDe(tab, pid) == {<<i, tab[i]>> : i \in {j \in DOMAIN tab : tab[j].pedido_id = pid}}

C33_Passo ==
    /\ \A b \in DOMAIN pedidos :
          b # resp'.pedido_id
          => /\ pedidos'[b] = pedidos[b]
             /\ LinhasDe(pedido_itens', b) = LinhasDe(pedido_itens, b)
             /\ LogsDe(pedido_logs', b) = LogsDe(pedido_logs, b)
             /\ LinhasDe(ordens_producao', b) = LinhasDe(ordens_producao, b)
    /\ (/\ resp'.op \in {"update_item", "delete_item"}
        /\ resp'.pedido_id \in DOMAIN pedidos
        /\ resp'.item_id \in DOMAIN pedido_itens
        /\ pedido_itens[resp'.item_id].pedido_id # resp'.pedido_id)
       => /\ UNCHANGED db
          /\ IF ConflitoDe(resp'.op, pedidos[resp'.pedido_id].status) = ""
             THEN resp'.code = 404 /\ resp'.body.error = "item nao encontrado"
             ELSE resp'.code = 400

Casam(tab, code, rev) ==
    {i \in DOMAIN tab :
        /\ tab[i].embalagem_code = code
        /\ (IF tab[i].rev = None THEN "" ELSE tab[i].rev) = (IF rev = None THEN "" ELSE rev)}

CamposDoSnapshot == {"embalagem_code", "rev", "snapshot_material", "snapshot_tratamento"}

C34_Passo ==
    /\ (/\ resp'.op = "add_item"
        /\ resp'.pedido_id \in DOMAIN pedidos
        /\ pedidos[resp'.pedido_id].status = "RASCUNHO")
       => LET m == Casam(embalagem_master, resp'.data.embalagem_code, resp'.data.rev) IN
          IF m = {}
          THEN /\ resp'.code = 400
               /\ resp'.body.error = "Embalagem nao encontrada para snapshot"
               /\ UNCHANGED db
          ELSE /\ resp'.code = 201
               /\ resp'.item_id \notin DOMAIN pedido_itens
               /\ \E i \in m :
                    LET novo == pedido_itens'[resp'.item_id]
                        emb  == embalagem_master[i]
                    IN  /\ novo.embalagem_code = emb.embalagem_code
                        /\ novo.rev = emb.rev
                        /\ novo.snapshot_material = emb.material
                        /\ novo.snapshot_tratamento
                              = (IF emb.transparencia = NULL THEN 0 ELSE 1)
    /\ \A i \in (DOMAIN pedido_itens) \cap (DOMAIN pedido_itens') :
          \A k \in CamposDoSnapshot : pedido_itens'[i][k] = pedido_itens[i][k]

\* C34: add_item on a draft fails with package-not-found unless a package
\* specification matches (code, revision); on success the new item carries the
\* code, the revision and the snapshot of the matched specification as it is
\* at that moment (the treatment flag tells whether its transparency is set);
\* no later step, a change of the package specification included, changes the
\* code, revision or snapshot of an existing item.
C34_Snapshot == [][C34_Passo]_vars

\* reached: the specification an item was taken from has been edited since;
\* the item still shows the material and the treatment flag of before
C34_Witness ==
    \E i \in DOMAIN pedido_itens :
        /\ resp.op = "embalagens_update"
        /\ \E e \in Casam(embalagem_master, pedido_itens[i].embalagem_code,
                          pedido_itens[i].rev) :
              /\ embalagem_master[e].material # pedido_itens[i].snapshot_material
              /\ embalagem_master[e].transparencia # NULL
              /\ pedido_itens[i].snapshot_tratamento = 0

\* the audit entries appended by the step
NovosLogs == SubSeq(pedido_logs', Len(pedido_logs) + 1, Len(pedido_logs'))

\* the columns of the item whose stored value differs after the step
Mudados(item_id) ==
    {k \in DOMAIN pedido_itens[item_id] : pedido_itens'[item_id][k] # pedido_itens[item_id][k]}

C35_Passo ==
    (resp'.op = "update_item" /\ resp'.code = 200)
    => LET iid == resp'.item_id
           upd == {n \in DOMAIN NovosLogs : NovosLogs[n].acao = "ITEM_UPDATED"}
           rec == {n \in DOMAIN NovosLogs : NovosLogs[n].acao = "RECALC_TOTAL"}
       IN  /\ (upd # {}) <=> (Mudados(iid) # {})
           /\ \A n \in upd :
                 /\ NovosLogs[n].detalhe.item_id = iid
                 /\ DOMAIN NovosLogs[n].detalhe.changes = Mudados(iid)
                 /\ \A k \in Mudados(iid) :
                       /\ NovosLogs[n].detalhe.changes[k].de = pedido_itens[iid][k]
                       /\ Armazenado(k, NovosLogs[n].detalhe.changes[k].para)
                             = pedido_itens'[iid][k]
                 /\ \A m \in rec : n < m

\* C35: a successful update_item appends an ITEM_UPDATED entry exactly when the
\* stored value of at least one applied field changes; its diff lists exactly
\* the changed fields with their old and new values, and it comes before the
\* RECALC_TOTAL entry of the same request.
C35_DiffExato == [][C35_Passo]_vars

C36_Passo ==
    resp'.op = "create_order"
    => IF resp'.code = 201
       THEN /\ numeradores' = numeradores + 1
            /\ Len(pedidos') = Len(pedidos) + 1
            /\ pedidos'[Len(pedidos')].numero_pedido = FormatPED(numeradores + 1)
       ELSE /\ numeradores' = numeradores
            /\ pedidos' = pedidos

\* C36: a create_order that fails, for a missing client id or at the INSERT of
\* the order, leaves the PED counter as it was; a successful one takes the
\* number after the counter, that is after the last successfully created order.
C36_NumeroNaoConsumido == [][C36_Passo]_vars

\* reached: the very first create failed at its INSERT and the counter is
\* still at zero, with no order stored
C36_Witness ==
    /\ resp.op = "create_order" /\ resp.code = 500
    /\ numeradores = 0
    /\ pedidos = <<>>

C37_Passo ==
    \A pid \in DOMAIN pedidos :
        pedidos[pid].status # "RASCUNHO"
        => pedidos'[pid].preco_total = pedidos[pid].preco_total

\* C37: once an order has left RASCUNHO its stored preco_total is frozen: no
\* operation executed while the order is APROVADO, EM_EXECUCAO, CONCLUIDO or
\* CANCELADO changes it.
C37_TotalCongelado == [][C37_Passo]_vars

\* reached: the total of a draft with one item was overwritten by a header
\* patch; the approval recomputed it from the item, and an item update on the
\* approved order has left it as it was
C37_Witness ==
    /\ resp.op = "update_item" /\ resp.code = 200
    /\ resp.pedido_id \in DOMAIN pedidos
    /\ pedidos[resp.pedido_id].status = "APROVADO"
    /\ pedidos[resp.pedido_id].preco_total = 10
    /\ \E n \in DOMAIN pedido_logs : pedido_logs[n].acao = "UPDATED"

NaoTerminal == {"RASCUNHO", "APROVADO", "EM_EXECUCAO"}

C38_Passo ==
    (/\ resp'.op = "change_status"
     /\ Upper(resp'.data.status) = "CANCELADO"
     /\ resp'.pedido_id \in DOMAIN pedidos
     /\ pedidos[resp'.pedido_id].status \in NaoTerminal)
    => /\ resp'.code = 200
       /\ pedidos'[resp'.pedido_id].status = "CANCELADO"

\* C38: for every order in RASCUNHO, APROVADO or EM_EXECUCAO a change_status
\* to CANCELADO succeeds and leaves the order CANCELADO: a terminal status is
\* one step away from every non-terminal one.
C38_CancelarSempre == [][C38_Passo]_vars

\* reached: an order in execution has just been cancelled
C38_Witness ==
    /\ resp.op = "change_status" /\ resp.code = 200
    /\ pedido_logs # <<>>
    /\ pedido_logs[Len(pedido_logs)].acao = "STATUS_CHANGED"
    /\ pedido_logs[Len(pedido_logs)].detalhe = [de |-> "EM_EXECUCAO", para |-> "CANCELADO"]
    /\ pedidos[resp.pedido_id].status = "CANCELADO"

\* a code of the form C followed by five digits
CodigoValido(code) ==
    /\ code.prefix = "C"
    /\ Len(code.digits) = 5
    /\ \A n \in DOMAIN code.digits : code.digits[n] \in 0..9

\* the number of the greatest valid code of tab, -1 when there is none
MaiorValido(tab) ==
    LET ns == {IntOf(tab[i].codigo_interno.digits) :
                 i \in {j \in DOMAIN tab : CodigoValido(tab[j].codigo_interno)}}
    IN  IF ns = {} THEN -1 ELSE CHOOSE n \in ns : \A m \in ns : m <= n

C39_Passo ==
    /\ (/\ resp'.op = "create_client" /\ resp'.code = 201
        /\ resp'.data.codigo_interno = SemCodigo)
       => LET novo == clientes'[Len(clientes')].codigo_interno IN
          /\ Len(clientes') = Len(clientes) + 1
          /\ CodigoValido(novo)
          /\ IntOf(novo.digits) = MaiorValido(clientes) + 1
          /\ resp'.body.codigo_interno = novo
    /\ \A i, j \in DOMAIN clientes' :
          i # j => clientes'[i].codigo_interno # clientes'[j].codigo_interno

\* C39: a client created through the API without an internal code receives C
\* followed by five digits, the number being the greatest valid code in the
\* registry plus one (C00000 in an empty registry); at every moment the codes
\* of the registered clients are pairwise different.
C39_CodigoSequencial == [][C39_Passo]_vars

\* reached: a client registered with the code C00005 of its own is followed by
\* one without a code, which received C00006; a third has a code that is not
\* of the valid form
C39_Witness ==
    /\ resp.op = "create_client" /\ resp.code = 201
    /\ resp.data.codigo_interno = SemCodigo
    /\ Len(clientes) = 3
    /\ clientes[3].codigo_interno = FormatC(6)
    /\ \E i \in 1..2 : clientes[i].codigo_interno = FormatC(5)
    /\ \E i \in 1..2 : ~CodigoValido(clientes[i].codigo_interno)
====
